---- MODULE Spec2Model ----
(***************************************************************************)
(* Access-control core of the API management backend:                      *)
(*   - RateLimiter (app/middleware/rate_limiter.py): sliding-window        *)
(*     limiter shared by the request threads;                              *)
(*   - identity resolution (app/middleware/auth_middleware.py), token      *)
(*     issue/decode (app/utils/security.py), refresh                       *)
(*     (app/services/auth_service.py), key revocation                      *)
(*     (app/routes/key_routes.py).                                         *)
(* Time is counted in ticks; TicksPerSecond ticks make one second, so that *)
(* sub-second instants and the truncations to whole seconds are visible.   *)
(***************************************************************************)
EXTENDS Integers, Sequences, FiniteSets, TLC

\* ------------------------------------------------------------------ bounds
TicksPerSecond == 2
MaxChecks == 4
MaxAdmin == 1
MaxAdvances == 2
SecretLen == 2
MaxBusyKeys == 1

\* ------------------------------------------------------- program constants
MinuteSeconds == 60
HourSeconds == 3600
DefaultLimitPerMinute == 100
DefaultLimitPerHour == 1000
DequeMaxLen == 20000

AccessTokenExpireMinutes == 30
RefreshTokenExpireDays == 7
OAuthTokenExpireSeconds == 900
ApiKeyPrefixLength == 8

MinuteWindow == MinuteSeconds * TicksPerSecond
HourWindow == HourSeconds * TicksPerSecond

\* ----------------------------------------------------------- input domains
Threads == {"t1", "t2"}
NoThread == "none"
Keys == {"k"}
\* an absent value is the empty tuple, a present one a tuple
Unset == <<>>
None == "None"
NoValue == <<>>
PerMinuteValues == {0, 1, 2, 3}
PerHourValues == {NoValue, <<3>>}
Advances == {1, 30 * TicksPerSecond, MinuteWindow - 1, HourWindow}

Users == {"u1"}
Orgs == {"o1"}
Roles == {"platform_admin", "org_admin", "developer"}
Clients == {"c1"}
KeyIds == {"key1"}
Subs == {"s1", "s2"}
Versions == {"v1", "v2"}
Endpoints == {"e1"}
\* the scope names of the product, in alphabetical order
ScopeOrder == <<"orders.read", "orders.write">>
Scopes == {ScopeOrder[i] : i \in 1..Len(ScopeOrder)}
\* the limiter key f"sub:{sub.id}" of a subscription
SubKey == ("s1" :> "sub:s1") @@ ("s2" :> "sub:s2")
LimiterKeys == Keys \cup {SubKey[x] : x \in Subs}
AuthAdvances == {OAuthTokenExpireSeconds * TicksPerSecond + 1}

VARIABLES
    clock,      \* the wall clock read by datetime.now(timezone.utc), in ticks
    nadv,       \* number of clock advances so far (bounds the run)
    ncalls,     \* number of check_rate_limit calls started so far (bounds the run)
    nadmin,     \* number of set_limit, reset and get_stats calls started so far
    lock,       \* RateLimiter._lock: the thread holding it, or NoThread
    requests,   \* RateLimiter._requests: key -> deque of timestamps
    limits,     \* RateLimiter._limits: key -> <<per_minute, per_hour>> or Unset
    th,         \* per thread: the call in progress and its local variables
    results,    \* history: key -> the results of the completed checks, in order
    dirty,      \* history: key -> a reset, or a set_limit after the first check
    users,      \* table users: id -> row
    clients,    \* table app_clients: id -> row
    apikeys,    \* table api_keys: id -> row
    subs,       \* table subscriptions with requested and granted scopes
    tokens,     \* the payloads of the tokens the caller holds: the ones
                \* signed by the latest login, refresh or token request
    resp,       \* the request served by the last step and its response
    resolved,   \* history: the keys that have produced an AuthContext
    revoked,    \* history: the refresh tokens the caller held when
                \* revoke_refresh_tokens returned for their user
    made,       \* history: observed rate-limit key -> the number of requests
                \* the endpoint of the key received since the clock last moved
    apiversions, \* table api_versions, each row with the org_id of its product
    endpoints   \* table endpoints: id -> row

limiterVars == <<clock, nadv, ncalls, nadmin, lock, requests, limits, th, results, dirty>>
authVars == <<users, clients, apikeys, subs, tokens, resp, resolved, revoked, made, apiversions, endpoints>>
vars == <<clock, nadv, ncalls, nadmin, lock, requests, limits, th, results, dirty,
          users, clients, apikeys, subs, tokens, resp, resolved, revoked, made, apiversions, endpoints>>

Idle == [pc |-> "idle"]
NoRow == [exists |-> FALSE]
NoResp == [op |-> "none"]

\* ------------------------------------------------------------ RateLimiter

\* dict.get(key, (default_per_minute, default_per_hour))
get_limit(lims, key) ==
    IF lims[key] = Unset
    THEN <<DefaultLimitPerMinute, DefaultLimitPerHour>>
    ELSE lims[key]

\* variant: eviction at the one-minute horizon
_cleanup_minute(q, now) == SelectSeq(q, LAMBDA ts : ts > now - MinuteWindow)

\* while q and q[0] <= cutoff: q.popleft()
RECURSIVE _cleanup(_, _)
_cleanup(q, now) ==
    IF q # <<>> /\ Head(q) <= now - HourWindow
    THEN _cleanup(Tail(q), now)
    ELSE q

\* scan from the right, stop at the first timestamp that is not newer
RECURSIVE _count_since(_, _)
_count_since(q, since) ==
    IF q = <<>> THEN 0
    ELSE IF q[Len(q)] > since
         THEN 1 + _count_since(SubSeq(q, 1, Len(q) - 1), since)
         ELSE 0

\* int(x) of a quotient of ticks by TicksPerSecond: truncation toward zero
IntSeconds(ticks) ==
    IF ticks >= 0 THEN ticks \div TicksPerSecond
    ELSE 0 - ((0 - ticks) \div TicksPerSecond)

Max(a, b) == IF a >= b THEN a ELSE b

\* first timestamp from the left that is newer than now - window
RECURSIVE OldestInWindow(_, _)
OldestInWindow(q, cutoff) ==
    IF q = <<>> THEN NoValue
    ELSE IF Head(q) > cutoff THEN <<Head(q)>>
         ELSE OldestInWindow(Tail(q), cutoff)

_retry_after_seconds(q, now, window) ==
    LET oldest_in_window == OldestInWindow(q, now - window)
    IN  IF oldest_in_window = NoValue THEN 0
        ELSE Max(1, IntSeconds(window - (now - oldest_in_window[1])))

\* deque(maxlen=20000).append: the oldest entry is dropped when full
DequeAppend(q, x) ==
    IF Len(q) >= DequeMaxLen THEN Append(Tail(q), x) ELSE Append(q, x)

\* x or d
OrElse(x, d) == IF x = 0 THEN d ELSE x

\* CheckBody with the minute comparison off by one (> for >=)
CheckBody_gt(q0, now, per_minute, per_hour) ==
    LET q == _cleanup(q0, now)
        minute_count == _count_since(q, now - MinuteWindow)
        hour_count == _count_since(q, now - HourWindow)
    IN  IF minute_count > per_minute
        THEN [q |-> q, allowed |-> FALSE, now |-> now,
              limit_type |-> "per_minute", limit |-> per_minute,
              current |-> minute_count,
              retry_after |-> _retry_after_seconds(q, now, MinuteWindow)]
        ELSE IF hour_count >= per_hour
        THEN [q |-> q, allowed |-> FALSE, now |-> now,
              limit_type |-> "per_hour", limit |-> per_hour,
              current |-> hour_count,
              retry_after |-> _retry_after_seconds(q, now, HourWindow)]
        ELSE [q |-> DequeAppend(q, now), allowed |-> TRUE, now |-> now,
              limit_type |-> None, limit |-> per_minute,
              current |-> minute_count + 1, retry_after |-> 0]

\* body of check_rate_limit under the lock: the new deque and the result
CheckBody(q0, now, per_minute, per_hour) ==
    LET q == _cleanup(q0, now)
        minute_count == _count_since(q, now - MinuteWindow)
        hour_count == _count_since(q, now - HourWindow)
    IN  IF minute_count >= per_minute
        THEN [q |-> q, allowed |-> FALSE, now |-> now,
              limit_type |-> "per_minute", limit |-> per_minute,
              current |-> minute_count,
              retry_after |-> _retry_after_seconds(q, now, MinuteWindow)]
        ELSE IF hour_count >= per_hour
        THEN [q |-> q, allowed |-> FALSE, now |-> now,
              limit_type |-> "per_hour", limit |-> per_hour,
              current |-> hour_count,
              retry_after |-> _retry_after_seconds(q, now, HourWindow)]
        ELSE LET q2 == DequeAppend(q, now)
             IN  [q |-> q2, allowed |-> TRUE, now |-> now,
                  limit_type |-> None, limit |-> per_minute,
                  current |-> minute_count + 1,
                  retry_after |-> 0,
                  limit_hour |-> per_hour,
                  remaining_minute |-> Max(0, per_minute - (minute_count + 1)),
                  remaining_hour |-> Max(0, per_hour - (hour_count + 1)),
                  reset_in_minute |->
                      OrElse(_retry_after_seconds(q2, now, MinuteWindow), MinuteSeconds),
                  reset_in_hour |->
                      OrElse(_retry_after_seconds(q2, now, HourWindow), HourSeconds)]

\* what a check reports to its caller (the deque is not part of it)
ResultOf(r) == [f \in (DOMAIN r) \ {"q"} |-> r[f]]

CheckInProgress(k) ==
    \E t \in Threads : th[t].pc # "idle" /\ th[t].op = "check" /\ th[t].key = k

\* check_rate_limit, lines 90-91, before the lock is taken:
\*   now = datetime.now(timezone.utc); per_minute, per_hour = self.get_limit(key)
check_rate_limit_begin(t, k) ==
    /\ th[t].pc = "idle"
    /\ ncalls < MaxChecks
    /\ ncalls' = ncalls + 1
    /\ th' = [th EXCEPT ![t] = [pc |-> "begun", op |-> "check", key |-> k,
                                now |-> clock, lim |-> get_limit(limits, k)]]
    /\ UNCHANGED <<clock, nadv, nadmin, lock, requests, limits, results, dirty>>
    /\ UNCHANGED authVars

\* check_rate_limit, line 93: with self._lock (acquire)
check_rate_limit_lock(t) ==
    /\ th[t].pc = "begun"
    /\ th[t].op = "check"
    /\ lock = NoThread
    /\ lock' = t
    /\ th' = [th EXCEPT ![t].pc = "locked"]
    /\ UNCHANGED <<clock, nadv, ncalls, nadmin, requests, limits, results, dirty>>
    /\ UNCHANGED authVars

\* check_rate_limit, lines 94-144, and the release of the lock
check_rate_limit_body(t) ==
    /\ th[t].pc = "locked"
    /\ th[t].op = "check"
    /\ lock = t
    /\ LET k == th[t].key
           r == CheckBody(requests[k], th[t].now, th[t].lim[1], th[t].lim[2])
       IN  /\ requests' = [requests EXCEPT ![k] = r.q]
           /\ results' = [results EXCEPT ![k] = Append(@, ResultOf(r))]
    /\ lock' = NoThread
    /\ th' = [th EXCEPT ![t] = Idle]
    /\ UNCHANGED <<clock, nadv, ncalls, nadmin, limits, dirty>>
    /\ UNCHANGED authVars

\* get_stats, lines 153-154, before the lock is taken
get_stats_begin(t, k) ==
    /\ th[t].pc = "idle"
    /\ nadmin < MaxAdmin
    /\ nadmin' = nadmin + 1
    /\ th' = [th EXCEPT ![t] = [pc |-> "begun", op |-> "stats", key |-> k,
                                now |-> clock, lim |-> get_limit(limits, k)]]
    /\ UNCHANGED <<clock, nadv, ncalls, lock, requests, limits, results, dirty>>
    /\ UNCHANGED authVars

\* get_stats, line 156 (acquire)
get_stats_lock(t) ==
    /\ th[t].pc = "begun"
    /\ th[t].op = "stats"
    /\ lock = NoThread
    /\ lock' = t
    /\ th' = [th EXCEPT ![t].pc = "locked"]
    /\ UNCHANGED <<clock, nadv, ncalls, nadmin, requests, limits, results, dirty>>
    /\ UNCHANGED authVars

\* get_stats, lines 157-170: only the eviction changes the state
get_stats_body(t) ==
    /\ th[t].pc = "locked"
    /\ th[t].op = "stats"
    /\ lock = t
    /\ requests' = [requests EXCEPT ![th[t].key] = _cleanup(@, th[t].now)]
    /\ lock' = NoThread
    /\ th' = [th EXCEPT ![t] = Idle]
    /\ UNCHANGED <<clock, nadv, ncalls, nadmin, limits, results, dirty>>
    /\ UNCHANGED authVars

\* reset, line 148 (acquire)
reset_lock(t, k) ==
    /\ th[t].pc = "idle"
    /\ nadmin < MaxAdmin
    /\ nadmin' = nadmin + 1
    /\ lock = NoThread
    /\ lock' = t
    /\ th' = [th EXCEPT ![t] = [pc |-> "locked", op |-> "reset", key |-> k]]
    /\ UNCHANGED <<clock, nadv, ncalls, requests, limits, results, dirty>>
    /\ UNCHANGED authVars

\* reset, line 149: self._requests[key].clear()
reset_body(t) ==
    /\ th[t].pc = "locked"
    /\ th[t].op = "reset"
    /\ lock = t
    /\ requests' = [requests EXCEPT ![th[t].key] = <<>>]
    /\ dirty' = [dirty EXCEPT ![th[t].key] = TRUE]
    /\ lock' = NoThread
    /\ th' = [th EXCEPT ![t] = Idle]
    /\ UNCHANGED <<clock, nadv, ncalls, nadmin, limits, results>>
    /\ UNCHANGED authVars

\* set_limit, lines 37-39: default per_hour, then acquire
set_limit_lock(t, k, per_minute, per_hour) ==
    /\ th[t].pc = "idle"
    /\ nadmin < MaxAdmin
    /\ nadmin' = nadmin + 1
    /\ lock = NoThread
    /\ lock' = t
    /\ th' = [th EXCEPT ![t] =
                [pc |-> "locked", op |-> "set_limit", key |-> k,
                 lim |-> <<per_minute,
                           IF per_hour = NoValue THEN per_minute * 60 ELSE per_hour[1]>>]]
    /\ UNCHANGED <<clock, nadv, ncalls, requests, limits, results, dirty>>
    /\ UNCHANGED authVars

\* set_limit, line 40
set_limit_body(t) ==
    /\ th[t].pc = "locked"
    /\ th[t].op = "set_limit"
    /\ lock = t
    /\ limits' = [limits EXCEPT ![th[t].key] = th[t].lim]
    /\ dirty' = [dirty EXCEPT ![th[t].key] =
                    @ \/ results[th[t].key] # <<>> \/ CheckInProgress(th[t].key)]
    /\ lock' = NoThread
    /\ th' = [th EXCEPT ![t] = Idle]
    /\ UNCHANGED <<clock, nadv, ncalls, nadmin, requests, results>>
    /\ UNCHANGED authVars

\* the wall clock moves on
Tick(d) ==
    /\ resp = NoResp
    /\ nadv < MaxAdvances
    /\ nadv' = nadv + 1
    /\ clock' = clock + d
    /\ resp' = NoResp
    /\ made' = [k \in DOMAIN made |-> 0]
    /\ UNCHANGED <<ncalls, nadmin, lock, requests, limits, th, results, dirty>>
    /\ UNCHANGED <<users, clients, apikeys, subs, tokens, resolved, revoked, apiversions, endpoints>>

LimiterStep(t) ==
    \/ \E k \in Keys : check_rate_limit_begin(t, k)
    \/ check_rate_limit_lock(t)
    \/ check_rate_limit_body(t)
    \/ \E k \in Keys : get_stats_begin(t, k)
    \/ get_stats_lock(t)
    \/ get_stats_body(t)
    \/ \E k \in Keys : reset_lock(t, k)
    \/ reset_body(t)
    \/ \E k \in Keys, pm \in PerMinuteValues, ph \in PerHourValues :
            set_limit_lock(t, k, pm, ph)
    \/ set_limit_body(t)

\* ------------------------------------------------ tokens (utils/security.py)

\* the int timestamp jwt.encode stores for a datetime: whole seconds
Timestamp(now) == now \div TicksPerSecond

\* payload = dict(data); payload.update({"exp": exp, "iat": now, "type": "access"})
create_access_token(data, now) ==
    [exp |-> Timestamp(now) + AccessTokenExpireMinutes * 60,
     iat |-> Timestamp(now), type |-> "access"] @@ data

\* variant: the refresh token written with the discriminator of access tokens
create_refresh_token_as_access(data, now) ==
    [exp |-> Timestamp(now) + RefreshTokenExpireDays * 24 * 3600,
     iat |-> Timestamp(now), type |-> "access"] @@ data

\* payload.update({"exp": exp, "iat": now, "type": "refresh"})
create_refresh_token(data, now) ==
    [exp |-> Timestamp(now) + RefreshTokenExpireDays * 24 * 3600,
     iat |-> Timestamp(now), type |-> "refresh"] @@ data

create_oauth_token(client_id, scopes, expires_in, now) ==
    [sub |-> client_id, scopes |-> scopes,
     exp |-> Timestamp(now) + expires_in, iat |-> Timestamp(now),
     type |-> "oauth_client"]

\* the exception classes of the jwt library that are InvalidTokenError
InvalidTokenErrors ==
    {"InvalidTokenError", "DecodeError", "InvalidSignatureError",
     "ExpiredSignatureError"}

\* variant: jwt.decode with verify_exp switched off
jwt_decode_noexp(token, now) ==
    IF token.form = "malformed" THEN [exc |-> "DecodeError"]
    ELSE IF token.form = "tampered" THEN [exc |-> "InvalidSignatureError"]
    ELSE [exc |-> None, payload |-> token.payload]

\* jwt.decode(token, JWT_SECRET, algorithms=[JWT_ALGORITHM]): the payload, or
\* the exception raised.  A bearer value is [form, payload]: form says
\* whether the string is a token signed by this server ("intact"), one whose
\* payload or signature was altered ("tampered") or not a token ("malformed")
jwt_decode(token, now) ==
    IF token.form = "malformed" THEN [exc |-> "DecodeError"]
    ELSE IF token.form = "tampered" THEN [exc |-> "InvalidSignatureError"]
    ELSE IF token.payload.exp * TicksPerSecond <= now
         THEN [exc |-> "ExpiredSignatureError"]
         ELSE [exc |-> None, payload |-> token.payload]

\* variant: decode_token without its except InvalidTokenError clause
decode_token_uncaught(token, now) ==
    LET r == jwt_decode(token, now)
    IN  IF r.exc = None THEN [ret |-> "payload", payload |-> r.payload]
        ELSE IF r.exc = "ExpiredSignatureError" THEN [ret |-> "None"]
        ELSE [ret |-> "raise", exc |-> r.exc]

\* decode_token: try / except ExpiredSignatureError / except InvalidTokenError
decode_token(token, now) ==
    LET r == jwt_decode(token, now)
    IN  IF r.exc = None THEN [ret |-> "payload", payload |-> r.payload]
        ELSE IF r.exc = "ExpiredSignatureError" THEN [ret |-> "None"]
        ELSE IF r.exc \in InvalidTokenErrors THEN [ret |-> "None"]
        ELSE [ret |-> "raise", exc |-> r.exc]

\* payload.get(f) for the string-valued claims
Get(payload, f) == IF f \in DOMAIN payload THEN payload[f] ELSE None

\* not x, for a string-valued claim
Falsy(x) == x = None \/ x = ""

\* the server-side secret of the keyed hash
API_KEY_HASH_SECRET == "hmac"

\* _hmac_sha256_hex(secret, message): a string is a tuple of characters, and
\* the keyed hash is modelled as an injective tag of the key on the message
_hmac_sha256_hex(secret, message) == <<secret>> \o message

\* variant: a hash of the key that does not use the server-side secret
hash_api_key_unkeyed(api_key) == <<"sha256">> \o api_key

\* hash_api_key(api_key)
hash_api_key(api_key) == _hmac_sha256_hex(API_KEY_HASH_SECRET, api_key)

\* the plaintext generate_api_key returned when the key row was created
KeySecret(kid) == <<"sk", kid>>

\* ------------------------------- identity (middleware/auth_middleware.py)

AuthContext(auth_type, identity_id, identity_type, email, role, org_id, scopes, app_client_id) ==
    [auth_type |-> auth_type, identity_id |-> identity_id,
     identity_type |-> identity_type, email |-> email, role |-> role,
     org_id |-> org_id, scopes |-> scopes, app_client_id |-> app_client_id]

NoBearer == [form |-> "absent"]

\* sorted(set(names)) over the scope names
SortedScopes(S) == SelectSeq(ScopeOrder, LAMBDA x : x \in S)

\* variant: the scopes of an OAuth-client context queried again from the
\* subscriptions that are approved when the token is presented
payload_scopes_requeried(payload) ==
    SortedScopes(UNION {subs[x].granted : x \in {y \in Subs :
                /\ subs[y].exists
                /\ subs[y].status = "approved"}})

\* variant: any role string is taken as a role
UserRole_any(role) == TRUE

\* UserRole(role) returns a member of the enumeration (it raises otherwise)
UserRole_ok(role) == role \in Roles

\* payload.get("scopes", []) of the decoded OAuth-client token
payload_scopes(payload) ==
    IF "scopes" \in DOMAIN payload THEN payload.scopes ELSE <<>>

DepNone == [kind |-> "none"]
DepCtx(ctx) == [kind |-> "ctx", ctx |-> ctx]
DepHttp(status, detail) == [kind |-> "http", status |-> status, detail |-> detail]
DepError(exc) == [kind |-> "error", exc |-> exc]

\* variant: get_current_user_optional without its test of the token type
get_current_user_optional_anytype(credentials, now) ==
    IF credentials.form = "absent" THEN DepNone
    ELSE
    LET d == decode_token(credentials, now)
    IN  IF d.ret = "raise" THEN DepError(d.exc)
        ELSE IF d.ret = "None" THEN DepNone
        ELSE
        LET payload == d.payload
            token_type == Get(payload, "type")
            sub == Get(payload, "sub")
            role == Get(payload, "role")
        IN  IF token_type = "oauth_client"
            THEN IF Falsy(sub) THEN DepNone
                 ELSE DepCtx(AuthContext("oauth_client", sub, "app_client",
                        None, None, None,
                        payload_scopes(payload),
                        sub))
            ELSE IF Falsy(sub) \/ Falsy(role) THEN DepNone
            ELSE IF ~UserRole_ok(role) THEN DepNone
            ELSE DepCtx(AuthContext("jwt", sub, "user",
                        Get(payload, "email"), role, Get(payload, "org_id"),
                        <<>>, None))

\* get_current_user_optional
get_current_user_optional(credentials, now) ==
    IF credentials.form = "absent" THEN DepNone
    ELSE
    LET d == decode_token(credentials, now)
    IN  IF d.ret = "raise" THEN DepError(d.exc)
        ELSE IF d.ret = "None" THEN DepNone
        ELSE
        LET payload == d.payload
            token_type == Get(payload, "type")
            sub == Get(payload, "sub")
            role == Get(payload, "role")
        IN  IF token_type \notin {"access", "oauth_client"} THEN DepNone
            ELSE IF token_type = "oauth_client"
            THEN IF Falsy(sub) THEN DepNone
                 ELSE DepCtx(AuthContext("oauth_client", sub, "app_client",
                        None, None, None,
                        payload_scopes(payload),
                        sub))
            ELSE IF Falsy(sub) \/ Falsy(role) THEN DepNone
            ELSE IF ~UserRole_ok(role) THEN DepNone
            ELSE DepCtx(AuthContext("jwt", sub, "user",
                        Get(payload, "email"), role, Get(payload, "org_id"),
                        <<>>, None))

\* variant: get_current_user that looks the user up and refuses a missing
\* or deactivated account and a role that is no longer the account's
get_current_user_checked(credentials, now) ==
    LET d == get_current_user_optional(credentials, now)
    IN  IF d.kind = "error" THEN d
        ELSE IF d.kind # "ctx"
        THEN DepHttp(401, "Missing or invalid authentication token")
        ELSE IF d.ctx.identity_type # "user"
        THEN DepHttp(403, "User authentication required")
        ELSE IF \/ d.ctx.identity_id \notin DOMAIN users
                \/ ~users[d.ctx.identity_id].exists
                \/ ~users[d.ctx.identity_id].is_active
                \/ users[d.ctx.identity_id].role # d.ctx.role
        THEN DepHttp(401, "User not found or inactive")
        ELSE d

\* get_current_user: the strict variant
get_current_user(credentials, now) ==
    LET d == get_current_user_optional(credentials, now)
    IN  IF d.kind = "error" THEN d
        ELSE IF d.kind # "ctx"
        THEN DepHttp(401, "Missing or invalid authentication token")
        ELSE IF d.ctx.identity_type # "user"
        THEN DepHttp(403, "User authentication required")
        ELSE d

\* variant: the granted scopes of every subscription of a client that was
\* ever approved, whatever its status now
ApprovedScopes_anystatus(sb, client) ==
    UNION {sb[x].granted : x \in {y \in Subs :
                /\ sb[y].exists
                /\ sb[y].app_client_id = client}}

\* the granted scope names of the approved subscriptions of a client: the
\* rows of the handler's query over Subscription.granted_scopes filtered by
\* app_client_id and status == "approved", read as its loop reads them (each
\* row an iterable of scope names, auth_middleware.py:184-190)
ApprovedScopes(sb, client) ==
    UNION {sb[x].granted : x \in {y \in Subs :
                /\ sb[y].exists
                /\ sb[y].app_client_id = client
                /\ sb[y].status = "approved"}}

KeyRows(keys, key_hash) ==
    {k \in KeyIds : keys[k].exists /\ keys[k].key_hash = key_hash}

\* variant: get_api_key_client returning None for a key that matches no row
get_api_key_client_soft(api_key, keys, cl, sb, now, fail) ==
    IF api_key = NoValue \/ api_key = <<"">>
    THEN [dep |-> DepNone, last_used_at |-> NoValue]
    ELSE IF fail = "key_lookup"
    THEN [dep |-> DepError("DBAPIError"), last_used_at |-> NoValue]
    ELSE
    LET rows == KeyRows(keys, hash_api_key(api_key))
    IN  IF rows = {}
        THEN [dep |-> DepNone, last_used_at |-> NoValue]
        ELSE
        LET kid == CHOOSE k \in rows : TRUE
            key_row == keys[kid]
        IN  IF ~key_row.is_active
            THEN [dep |-> DepHttp(401, "API key is revoked"), last_used_at |-> NoValue]
            ELSE IF key_row.expires_at # NoValue /\ key_row.expires_at[1] < now
            THEN [dep |-> DepHttp(401, "API key has expired"), last_used_at |-> NoValue]
            ELSE IF fail = "client_lookup"
            THEN [dep |-> DepError("DBAPIError"), last_used_at |-> NoValue]
            ELSE IF ~cl[key_row.app_client_id].exists
                    \/ ~cl[key_row.app_client_id].is_active
            THEN [dep |-> DepHttp(401, "App client is inactive"), last_used_at |-> NoValue]
            ELSE IF fail = "scopes_query"
            THEN [dep |-> DepError("DBAPIError"), last_used_at |-> NoValue]
            ELSE [dep |-> DepCtx(AuthContext("api_key", kid, "app_client",
                            None, None, cl[key_row.app_client_id].org_id,
                            SortedScopes(ApprovedScopes(sb, key_row.app_client_id)),
                            key_row.app_client_id)),
                  last_used_at |-> IF fail = "last_used_update" THEN NoValue ELSE <<now>>]

\* get_api_key_client.  fail names the statement of the handler at which the
\* database raises ("none": it does not).  last_used_at is written and never
\* read by the program: the result carries the value written, NoValue when
\* the update did not happen.
get_api_key_client(api_key, keys, cl, sb, now, fail) ==
    IF api_key = NoValue \/ api_key = <<"">>
    THEN [dep |-> DepNone, last_used_at |-> NoValue]
    ELSE IF fail = "key_lookup"
    THEN [dep |-> DepError("DBAPIError"), last_used_at |-> NoValue]
    ELSE
    LET rows == KeyRows(keys, hash_api_key(api_key))
    IN  IF rows = {}
        THEN [dep |-> DepHttp(401, "Invalid API key"), last_used_at |-> NoValue]
        ELSE
        LET kid == CHOOSE k \in rows : TRUE
            key_row == keys[kid]
        IN  IF ~key_row.is_active
            THEN [dep |-> DepHttp(401, "API key is revoked"), last_used_at |-> NoValue]
            ELSE IF key_row.expires_at # NoValue /\ key_row.expires_at[1] < now
            THEN [dep |-> DepHttp(401, "API key has expired"), last_used_at |-> NoValue]
            ELSE IF fail = "client_lookup"
            THEN [dep |-> DepError("DBAPIError"), last_used_at |-> NoValue]
            ELSE IF ~cl[key_row.app_client_id].exists
                    \/ ~cl[key_row.app_client_id].is_active
            THEN [dep |-> DepHttp(401, "App client is inactive"), last_used_at |-> NoValue]
            ELSE IF fail = "scopes_query"
            THEN [dep |-> DepError("DBAPIError"), last_used_at |-> NoValue]
            ELSE [dep |-> DepCtx(AuthContext("api_key", kid, "app_client",
                            None, None, cl[key_row.app_client_id].org_id,
                            SortedScopes(ApprovedScopes(sb, key_row.app_client_id)),
                            key_row.app_client_id)),
                  last_used_at |-> IF fail = "last_used_update" THEN NoValue ELSE <<now>>]

\* variant: get_auth_context looking at the API-key context first
get_auth_context_keyfirst(jwt_auth, api_key_auth) ==
    IF jwt_auth.kind \in {"http", "error"} THEN jwt_auth
    ELSE IF api_key_auth.kind \in {"http", "error"} THEN api_key_auth
    ELSE IF api_key_auth.kind = "ctx" THEN api_key_auth
    ELSE IF jwt_auth.kind = "ctx" THEN jwt_auth
    ELSE DepHttp(401, "Authentication required")

\* get_auth_context, with its two dependencies resolved in declaration order:
\* an exception raised by a dependency is the response
get_auth_context(jwt_auth, api_key_auth) ==
    IF jwt_auth.kind \in {"http", "error"} THEN jwt_auth
    ELSE IF api_key_auth.kind \in {"http", "error"} THEN api_key_auth
    ELSE IF jwt_auth.kind = "ctx" THEN jwt_auth
    ELSE IF api_key_auth.kind = "ctx" THEN api_key_auth
    ELSE DepHttp(401, "Authentication required")

SeqRange(q) == {q[i] : i \in 1..Len(q)}

\* variant: has_all_scopes satisfied by one scope of the list
has_all_scopes_anyof(ctx, scopes) ==
    \E i \in 1..Len(scopes) : scopes[i] \in SeqRange(ctx.scopes)

\* AuthContext.has_all_scopes
has_all_scopes(ctx, scopes) ==
    \A i \in 1..Len(scopes) : scopes[i] \in SeqRange(ctx.scopes)

\* require_role(*roles): the wrapper around a route whose auth argument is
\* the outcome of the dependency that resolved the caller
require_role(roles, auth) ==
    IF auth.kind \in {"http", "error"} THEN auth
    ELSE IF auth.kind # "ctx" THEN DepHttp(401, "Authentication required")
    ELSE IF auth.ctx.identity_type # "user"
    THEN DepHttp(403, "This endpoint requires user authentication")
    ELSE IF auth.ctx.role \notin roles THEN DepHttp(403, "Required role")
    ELSE auth

\* verify_scopes(required_scopes): scope_checker over get_auth_context
verify_scopes(required_scopes, auth) ==
    IF auth.kind # "ctx" THEN auth
    ELSE IF ~has_all_scopes(auth.ctx, required_scopes)
    THEN DepHttp(403, "Missing required scopes")
    ELSE auth

\* variant: RoleChecker admitting every user context
RoleChecker_anyrole(allowed_roles, auth) ==
    IF auth.kind # "ctx" THEN auth
    ELSE IF auth.ctx.identity_type # "user"
    THEN DepHttp(403, "This endpoint requires user authentication")
    ELSE auth

\* RoleChecker(allowed_roles).__call__ over get_current_user
RoleChecker(allowed_roles, auth) ==
    IF auth.kind # "ctx" THEN auth
    ELSE IF auth.ctx.identity_type # "user"
    THEN DepHttp(403, "This endpoint requires user authentication")
    ELSE IF auth.ctx.role \notin allowed_roles THEN DepHttp(403, "Required role")
    ELSE auth

\* variant: an unhandled exception answered like a failed authentication
Response_error_as_401(d) ==
    IF d.kind = "ctx" THEN [status |-> 200, detail |-> None, ctx |-> d.ctx]
    ELSE IF d.kind = "http" THEN [status |-> d.status, detail |-> d.detail]
    ELSE [status |-> 401, detail |-> "Authentication required"]

\* the response the framework sends for the outcome of a handler:
\* http_exception_handler / general_exception_handler of main.py
Response(d) ==
    IF d.kind = "ctx" THEN [status |-> 200, detail |-> None, ctx |-> d.ctx]
    ELSE IF d.kind = "http" THEN [status |-> d.status, detail |-> d.detail]
    ELSE [status |-> 500, detail |-> "Internal server error"]

\* --------------------------------------------------------- request inputs

\* a payload no server ever signed: what an attacker writes into a token
ForgedPayloads ==
    {[type |-> "access", sub |-> "u1", email |-> "u1", role |-> "platform_admin",
      org_id |-> None, tv |-> 0, iat |-> 0, exp |-> 1000000000]}

\* the Authorization headers a request can carry: none, a token this server
\* signed, or a string that is not one
Bearers ==
    {NoBearer}
    \cup {[form |-> "intact", payload |-> p] : p \in tokens}
    \cup {[form |-> f, payload |-> p] :
            f \in {"tampered", "malformed"}, p \in ForgedPayloads}

\* the X-API-Key headers: none, empty, the secret of a key, an unknown one
ApiKeys == {NoValue, <<"">>, <<"sk", "bogus">>} \cup {KeySecret(k) : k \in KeyIds}

DbFailures == {"none", "last_used_update"}

\* the public OAuth client_id of an app client, and its generated secret
OAuthId == ("c1" :> "oauth_c1")
ClientSecret(c) == <<"cs", c>>

\* the history of requests after one more request under the rate-limit key
\* k; the keys outside the domain of the history are not observed
Received(m, k) == IF k \in DOMAIN m THEN [m EXCEPT ![k] = @ + 1] ELSE m

\* request.client.host of the caller
ClientHost == "ip1"

\* ------------------------------------------ users (services/auth_service.py)

\* getattr(u, "token_version", 0): the users table has no such column
token_version(u) == 0

token_data(u) ==
    [sub |-> u, email |-> u, role |-> users[u].role,
     org_id |-> users[u].org_id, tv |-> token_version(u)]

\* AuthService.register_user: a new active row; the routes pass no org_id
register_user(u, role) ==
    /\ resp = NoResp
    /\ ~users[u].exists
    /\ users' = [users EXCEPT ![u] =
                    [exists |-> TRUE, role |-> role, org_id |-> None,
                     is_active |-> TRUE]]
    /\ resp' = NoResp
    /\ UNCHANGED <<clients, apikeys, subs, tokens, resolved, revoked, made, apiversions, endpoints>>
    /\ UNCHANGED limiterVars

\* AuthService.update_user: the fields given (a one-element tuple) are written
update_user(u, is_active, org_id, role) ==
    /\ resp = NoResp
    /\ users[u].exists
    /\ users' = [users EXCEPT ![u] =
                    [exists |-> TRUE,
                     role |-> IF role = NoValue THEN @.role ELSE role[1],
                     org_id |-> IF org_id = NoValue THEN @.org_id ELSE org_id[1],
                     is_active |-> IF is_active = NoValue THEN @.is_active
                                   ELSE is_active[1]]]
    /\ resp' = NoResp
    /\ UNCHANGED <<clients, apikeys, subs, tokens, resolved, revoked, made, apiversions, endpoints>>
    /\ UNCHANGED limiterVars

\* the route /auth/register (routes/auth_routes.py) over
\* AuthService.register_user.  rate_limit_check is a coroutine function and
\* the route calls it without awaiting it, so its body does not run.
register(u, role) ==
    LET status == IF role # "developer" THEN 403
                  ELSE IF users[u].exists THEN 400 ELSE 200
    IN  /\ resp = NoResp
        /\ made' = Received(made, <<"auth:register", ClientHost>>)
        /\ users' = IF status = 200
                     THEN [users EXCEPT ![u] =
                            [exists |-> TRUE, role |-> role, org_id |-> None,
                             is_active |-> TRUE]]
                     ELSE users
        /\ resp' = [op |-> "register", user |-> u, role |-> role,
                    status |-> status,
                    detail |-> IF status = 403
                               THEN "Can only self-register as developer"
                               ELSE IF status = 400 THEN "Email already registered"
                               ELSE None]
        /\ UNCHANGED <<clients, apikeys, subs, tokens, resolved, revoked, apiversions, endpoints>>
        /\ UNCHANGED limiterVars

\* AuthService.login and the route /auth/login: ValueError becomes 401.
\* rate_limit_check is called without being awaited: its body does not run.
login(u, password_ok) ==
    LET ok == users[u].exists /\ users[u].is_active /\ password_ok
        issued == {create_access_token(token_data(u), clock),
                   create_refresh_token(token_data(u), clock)}
    IN  /\ resp = NoResp
        /\ tokens' = IF ok THEN issued ELSE tokens
        /\ resp' = [op |-> "login", user |-> u,
                    status |-> IF ok THEN 200 ELSE 401,
                    detail |-> IF ok THEN None
                               ELSE IF users[u].exists /\ ~users[u].is_active
                                    THEN "Account is deactivated"
                                    ELSE "Invalid email or password",
                    issued |-> IF ok THEN issued ELSE {}]
        /\ made' = Received(made, <<"auth:login", ClientHost>>)
        /\ UNCHANGED <<users, clients, apikeys, subs, resolved, revoked, apiversions, endpoints>>
        /\ UNCHANGED limiterVars

\* variant: refresh_tokens that does not look at is_active
refresh_error_anyuser(token, now) ==
    LET d == decode_token(token, now)
    IN  IF d.ret = "raise" THEN "raise"
        ELSE IF d.ret = "None" THEN "Invalid or expired refresh token"
        ELSE IF Get(d.payload, "type") # "refresh" THEN "Invalid token type"
        ELSE IF Falsy(Get(d.payload, "sub")) THEN "Invalid token payload"
        ELSE IF \/ d.payload.sub \notin Users
                \/ ~users[d.payload.sub].exists
             THEN "User not found or inactive"
        ELSE IF (IF "tv" \in DOMAIN d.payload THEN d.payload.tv ELSE 0)
                    # token_version(d.payload.sub)
             THEN "Invalid or expired refresh token"
        ELSE None

\* AuthService.refresh_tokens: the error message, or None when it succeeds
refresh_error(token, now) ==
    LET d == decode_token(token, now)
    IN  IF d.ret = "raise" THEN "raise"
        ELSE IF d.ret = "None" THEN "Invalid or expired refresh token"
        ELSE IF Get(d.payload, "type") # "refresh" THEN "Invalid token type"
        ELSE IF Falsy(Get(d.payload, "sub")) THEN "Invalid token payload"
        ELSE IF \/ d.payload.sub \notin Users
                \/ ~users[d.payload.sub].exists
                \/ ~users[d.payload.sub].is_active
             THEN "User not found or inactive"
        ELSE IF (IF "tv" \in DOMAIN d.payload THEN d.payload.tv ELSE 0)
                    # token_version(d.payload.sub)
             THEN "Invalid or expired refresh token"
        ELSE None

\* the route /auth/refresh around AuthService.refresh_tokens
refresh_tokens(token) ==
    LET err == refresh_error(token, clock)
        u == token.payload.sub
        issued == IF err = None
                  THEN {create_access_token(token_data(u), clock),
                        create_refresh_token(token_data(u), clock)}
                  ELSE {}
    IN  /\ resp = NoResp
        /\ tokens' = IF err = None THEN issued ELSE tokens
        /\ resp' = [op |-> "refresh", token |-> token,
                    status |-> IF err = None THEN 200
                               ELSE IF err = "raise" THEN 500 ELSE 401,
                    detail |-> err, issued |-> issued]
        /\ UNCHANGED <<users, clients, apikeys, subs, resolved, revoked, made, apiversions, endpoints>>
        /\ UNCHANGED limiterVars

\* hasattr(User, "token_version"): the User model declares no such column
User_has_token_version == FALSE

\* AuthService.revoke_refresh_tokens(user_id): False, and nothing written,
\* when the model has no token_version; otherwise the counter of the row is
\* incremented
revoke_refresh_tokens(u) ==
    /\ resp = NoResp
    /\ users' = IF User_has_token_version /\ users[u].exists
                THEN [users EXCEPT ![u].token_version = @ + 1]
                ELSE users
    /\ revoked' = revoked \cup {p \in tokens : p.type = "refresh" /\ p.sub = u}
    /\ resp' = [op |-> "revoke_refresh_tokens", user |-> u,
                result |-> User_has_token_version /\ users[u].exists]
    /\ UNCHANGED <<clients, apikeys, subs, tokens, resolved, made, apiversions, endpoints>>
    /\ UNCHANGED limiterVars

\* ------------------------------------- app clients and keys (KeyService)

\* KeyService.create_app_client
create_app_client(c, org) ==
    /\ resp = NoResp
    /\ ~clients[c].exists
    /\ clients' = [clients EXCEPT ![c] =
                    [exists |-> TRUE, org_id |-> org, client_id |-> OAuthId[c],
                     client_secret_hash |-> hash_api_key(ClientSecret(c)),
                     is_active |-> TRUE]]
    /\ resp' = NoResp
    /\ UNCHANGED <<users, apikeys, subs, tokens, resolved, revoked, made, apiversions, endpoints>>
    /\ UNCHANGED limiterVars

\* KeyService.deactivate_app_client: the client and all its API keys
deactivate_app_client(c) ==
    /\ resp = NoResp
    /\ clients[c].exists
    /\ clients' = [clients EXCEPT ![c].is_active = FALSE]
    /\ apikeys' = [k \in KeyIds |->
                    IF apikeys[k].exists /\ apikeys[k].app_client_id = c
                    THEN [apikeys[k] EXCEPT !.is_active = FALSE]
                    ELSE apikeys[k]]
    /\ resp' = NoResp
    /\ UNCHANGED <<users, subs, tokens, resolved, revoked, made, apiversions, endpoints>>
    /\ UNCHANGED limiterVars

\* KeyService.create_api_key, reached through the route create_api_key
create_api_key(k, c, expires_at) ==
    /\ resp = NoResp
    /\ clients[c].exists
    /\ ~apikeys[k].exists
    /\ apikeys' = [apikeys EXCEPT ![k] =
                    [exists |-> TRUE, app_client_id |-> c,
                     key_hash |-> hash_api_key(KeySecret(k)),
                     is_active |-> TRUE, expires_at |-> expires_at,
                     revoked_by |-> None]]
    /\ resp' = NoResp
    /\ UNCHANGED <<users, clients, subs, tokens, resolved, revoked, made, apiversions, endpoints>>
    /\ UNCHANGED limiterVars

\* variant: revoke_api_key recording who revoked the key and leaving it active
KeyService_revoke_api_key_flag(keys, k, revoked_by) ==
    [keys EXCEPT ![k] = [@ EXCEPT !.revoked_by = revoked_by]]

\* KeyService.revoke_api_key(key_id, revoked_by): the rows after the call
KeyService_revoke_api_key(keys, k, revoked_by) ==
    [keys EXCEPT ![k] = [@ EXCEPT !.is_active = FALSE, !.revoked_by = revoked_by]]

\* what the revoke and rotate routes do before they call the key service,
\* auth being what get_current_user gave: the lookup of the client named in
\* the path and the comparison of its organization with the caller's;
\* missing is the status answered for a key id without a row
KeyRouteChecks(auth, c, k, missing) ==
    IF auth.kind # "ctx" THEN auth
    ELSE IF ~clients[c].exists THEN DepHttp(404, "App client not found")
    ELSE IF auth.ctx.role # "platform_admin" /\ auth.ctx.org_id # clients[c].org_id
    THEN DepHttp(403, "Access denied")
    ELSE IF ~apikeys[k].exists THEN DepHttp(missing, "API key not found")
    ELSE [kind |-> "ok"]

\* the route DELETE /clients/{client_id}/keys/{key_id}
revoke_api_key(credentials, c, k) ==
    \E auth \in {get_current_user(credentials, clock)} :
    \E d \in {KeyRouteChecks(auth, c, k, 404)} :
        /\ resp = NoResp
        /\ apikeys' = IF d.kind = "ok"
                      THEN KeyService_revoke_api_key(apikeys, k, auth.ctx.identity_id)
                      ELSE apikeys
        /\ resp' = [op |-> "revoke_api_key", bearer |-> credentials,
                    client_id |-> c, key_id |-> k,
                    status |-> IF d.kind = "ok" THEN 200
                               ELSE IF d.kind = "http" THEN d.status ELSE 500,
                    detail |-> IF d.kind = "http" THEN d.detail ELSE None]
        /\ UNCHANGED <<users, clients, subs, tokens, resolved, revoked, made, apiversions, endpoints>>
        /\ UNCHANGED limiterVars

Init ==
    /\ clock = 0
    /\ nadv = 0
    /\ ncalls = 0
    /\ nadmin = 0
    /\ lock = NoThread
    /\ requests = [k \in LimiterKeys |-> <<>>]
    /\ limits = [k \in LimiterKeys |-> Unset]
    /\ th = [t \in Threads |-> Idle]
    /\ results = [k \in Keys |-> <<>>]
    /\ dirty = [k \in Keys |-> FALSE]
    /\ users = [u \in Users |-> NoRow]
    /\ clients = [c \in Clients |-> NoRow]
    /\ apikeys = [k \in KeyIds |-> NoRow]
    /\ subs = [x \in Subs |-> NoRow]
    /\ tokens = {}
    /\ resp = NoResp
    /\ resolved = {}
    /\ revoked = {}
    /\ made = <<>>
    /\ apiversions = [v \in Versions |-> NoRow]
    /\ endpoints = [e \in Endpoints |-> NoRow]

\* ------------------------ subscriptions (services/subscription_service.py)

RateLimitChoices == {100}

\* the subscriptions of app client c to API version v
SubsOfPair(c, v) ==
    {y \in Subs : /\ subs[y].exists
                  /\ subs[y].app_client_id = c
                  /\ subs[y].api_version_id = v}

\* SubscriptionService.create_subscription_request; the API version is
\* taken to exist and to be published, and every scope name of Scopes to
\* belong to its product.  The insert succeeds only when the pair has no
\* row: UniqueConstraint("app_client_id", "api_version_id").
create_subscription_request(x, c, v, requested) ==
    /\ resp = NoResp
    /\ clients[c].exists
    /\ clients[c].is_active
    /\ SubsOfPair(c, v) = {}
    /\ ~subs[x].exists
    /\ subs' = [subs EXCEPT ![x] =
                    [exists |-> TRUE, app_client_id |-> c, api_version_id |-> v,
                     status |-> "pending", requested |-> requested,
                     granted |-> {}, rate_limit_per_minute |-> 100]]
    /\ resp' = NoResp
    /\ UNCHANGED <<users, clients, apikeys, tokens, resolved, revoked, made, apiversions, endpoints>>
    /\ UNCHANGED limiterVars

\* SubscriptionService.approve_subscription, with its call of
\* rate_limiter.set_limit(f"sub:{sub.id}", per_minute, per_minute * 60)
approve_subscription(x, granted_scope_names, rate_limit_per_minute) ==
    /\ resp = NoResp
    /\ subs[x].exists
    /\ subs[x].status = "pending"
    /\ granted_scope_names \ subs[x].requested = {}
    /\ subs' = [subs EXCEPT ![x] =
                    [@ EXCEPT !.status = "approved",
                              !.rate_limit_per_minute = rate_limit_per_minute,
                              !.granted = granted_scope_names]]
    /\ limits' = [limits EXCEPT ![SubKey[x]] =
                    <<rate_limit_per_minute, rate_limit_per_minute * 60>>]
    /\ resp' = NoResp
    /\ UNCHANGED <<users, clients, apikeys, tokens, resolved, revoked, made, apiversions, endpoints>>
    /\ UNCHANGED <<clock, nadv, ncalls, nadmin, lock, requests, th, results, dirty>>

\* SubscriptionService.deny_subscription
deny_subscription(x) ==
    /\ resp = NoResp
    /\ subs[x].exists
    /\ subs[x].status = "pending"
    /\ subs' = [subs EXCEPT ![x].status = "denied"]
    /\ resp' = NoResp
    /\ UNCHANGED <<users, clients, apikeys, tokens, resolved, revoked, made, apiversions, endpoints>>
    /\ UNCHANGED limiterVars

\* SubscriptionService.revoke_subscription, with rate_limiter.reset
revoke_subscription(x) ==
    /\ resp = NoResp
    /\ subs[x].exists
    /\ subs[x].status = "approved"
    /\ subs' = [subs EXCEPT ![x].status = "revoked"]
    /\ requests' = [requests EXCEPT ![SubKey[x]] = <<>>]
    /\ resp' = NoResp
    /\ UNCHANGED <<users, clients, apikeys, tokens, resolved, revoked, made, apiversions, endpoints>>
    /\ UNCHANGED <<clock, nadv, ncalls, nadmin, lock, limits, th, results, dirty>>

\* what a call of a service method gives its caller
Returned == [result |-> "returned", detail |-> None]
ReturnedNone == [result |-> "None", detail |-> None]
Raised(exc, detail) == [result |-> exc, detail |-> detail]

\* create_subscription_request, lines 40-63 and the commit: the exception it
\* raises, or Returned
create_subscription_outcome(c, v) ==
    IF ~clients[c].exists THEN Raised("ValueError", "App client not found")
    ELSE IF ~clients[c].is_active THEN Raised("ValueError", "App client is inactive")
    ELSE IF \E y \in SubsOfPair(c, v) : subs[y].status \in {"pending", "approved"}
    THEN Raised("ValueError", "Active subscription already exists")
    ELSE IF SubsOfPair(c, v) # {}
    THEN Raised("IntegrityError", "uq_subscriptions_app_client_api_version")
    ELSE Returned

\* variant: approval that grants whatever names it is given
approve_subscription_outcome_anyscope(x, granted_scope_names) ==
    IF ~subs[x].exists THEN ReturnedNone
    ELSE IF subs[x].status # "pending"
    THEN Raised("ValueError", "Subscription is not pending")
    ELSE Returned

\* approve_subscription, lines 149-160
approve_subscription_outcome(x, granted_scope_names) ==
    IF ~subs[x].exists THEN ReturnedNone
    ELSE IF subs[x].status # "pending"
    THEN Raised("ValueError", "Subscription is not pending")
    ELSE IF granted_scope_names \ subs[x].requested # {}
    THEN Raised("ValueError", "Cannot grant unrequested scopes")
    ELSE Returned

\* deny_subscription, lines 200-205
deny_subscription_outcome(x) ==
    IF ~subs[x].exists THEN ReturnedNone
    ELSE IF subs[x].status # "pending"
    THEN Raised("ValueError", "Subscription is not pending")
    ELSE Returned

\* variant: revocation of any subscription that is not revoked yet
revoke_subscription_outcome_anystatus(x) ==
    IF ~subs[x].exists THEN ReturnedNone
    ELSE IF subs[x].status = "revoked"
    THEN Raised("ValueError", "Subscription is not approved")
    ELSE Returned

\* revoke_subscription, lines 221-226
revoke_subscription_outcome(x) ==
    IF ~subs[x].exists THEN ReturnedNone
    ELSE IF subs[x].status # "approved"
    THEN Raised("ValueError", "Subscription is not approved")
    ELSE Returned

\* a call of SubscriptionService.create_subscription_request, x being the
\* id a new row gets
create_subscription_call(x, c, v, requested) ==
    LET out == create_subscription_outcome(c, v)
    IN  /\ resp = NoResp
        /\ ~subs[x].exists
        /\ subs' = IF out = Returned
                    THEN [subs EXCEPT ![x] =
                            [exists |-> TRUE, app_client_id |-> c, api_version_id |-> v,
                             status |-> "pending", requested |-> requested,
                             granted |-> {}, rate_limit_per_minute |-> 100]]
                    ELSE subs
        /\ resp' = [op |-> "create_subscription_request", sub |-> x,
                    app_client_id |-> c, api_version_id |-> v,
                    pair |-> {subs[y].status : y \in SubsOfPair(c, v)}] @@ out
        /\ UNCHANGED <<users, clients, apikeys, tokens, resolved, revoked, made,
                       apiversions, endpoints>>
        /\ UNCHANGED limiterVars

\* a call of SubscriptionService.approve_subscription
approve_subscription_call(x, granted_scope_names, rate_limit_per_minute) ==
    LET out == approve_subscription_outcome(x, granted_scope_names)
    IN  /\ resp = NoResp
        /\ subs' = IF out = Returned
                    THEN [subs EXCEPT ![x] =
                            [@ EXCEPT !.status = "approved",
                                      !.rate_limit_per_minute = rate_limit_per_minute,
                                      !.granted = granted_scope_names]]
                    ELSE subs
        /\ limits' = IF out = Returned
                      THEN [limits EXCEPT ![SubKey[x]] =
                              <<rate_limit_per_minute, rate_limit_per_minute * 60>>]
                      ELSE limits
        /\ resp' = [op |-> "approve_subscription", sub |-> x,
                    granted |-> granted_scope_names, before |-> subs[x]] @@ out
        /\ UNCHANGED <<users, clients, apikeys, tokens, resolved, revoked, made,
                       apiversions, endpoints>>
        /\ UNCHANGED <<clock, nadv, ncalls, nadmin, lock, requests, th, results, dirty>>

\* a call of SubscriptionService.deny_subscription
deny_subscription_call(x) ==
    LET out == deny_subscription_outcome(x)
    IN  /\ resp = NoResp
        /\ subs' = IF out = Returned THEN [subs EXCEPT ![x].status = "denied"] ELSE subs
        /\ resp' = [op |-> "deny_subscription", sub |-> x, before |-> subs[x]] @@ out
        /\ UNCHANGED <<users, clients, apikeys, tokens, resolved, revoked, made,
                       apiversions, endpoints>>
        /\ UNCHANGED limiterVars

\* a call of SubscriptionService.revoke_subscription
revoke_subscription_call(x) ==
    LET out == revoke_subscription_outcome(x)
    IN  /\ resp = NoResp
        /\ subs' = IF out = Returned THEN [subs EXCEPT ![x].status = "revoked"] ELSE subs
        /\ requests' = IF out = Returned
                        THEN [requests EXCEPT ![SubKey[x]] = <<>>] ELSE requests
        /\ resp' = [op |-> "revoke_subscription", sub |-> x, before |-> subs[x]] @@ out
        /\ UNCHANGED <<users, clients, apikeys, tokens, resolved, revoked, made,
                       apiversions, endpoints>>
        /\ UNCHANGED <<clock, nadv, ncalls, nadmin, lock, limits, th, results, dirty>>

\* the orders in which a query without ORDER BY can return a set of names
Orderings(S) ==
    {q \in UNION {[1..n -> S] : n \in {Cardinality(S)}} :
        \A i, j \in 1..Len(q) : i # j => q[i] # q[j]}

\* SubscriptionService.get_client_scopes: distinct names, in some order
get_client_scopes(c) == Orderings(ApprovedScopes(subs, c))

\* --------------------------------------- token endpoint (oauth_routes.py)

\* the scope form field: absent or empty (falsy), or a string and the list
\* scope.split() makes of it
ScopeParams ==
    {[truthy |-> FALSE, parts |-> <<>>],
     [truthy |-> TRUE, parts |-> <<>>],
     [truthy |-> TRUE, parts |-> <<ScopeOrder[1]>>],
     [truthy |-> TRUE, parts |-> <<ScopeOrder[1], ScopeOrder[1]>>],
     [truthy |-> TRUE, parts |-> <<ScopeOrder[2], ScopeOrder[1]>>]}

ClientByOAuthId(client_id) ==
    {c \in Clients : clients[c].exists /\ clients[c].client_id = client_id}

\* verify_client_secret(secret, stored_hash)
verify_client_secret(secret, stored_hash) ==
    IF secret = <<"">> \/ stored_hash = <<"">> THEN FALSE
    ELSE _hmac_sha256_hex(API_KEY_HASH_SECRET, secret) = stored_hash

\* variant: a request is refused only when none of its scopes is granted
invalid_scopes_whennonegranted(requested_scopes, granted_scopes) ==
    IF SeqRange(requested_scopes) \cap SeqRange(granted_scopes) # {} THEN {}
    ELSE SeqRange(requested_scopes) \ SeqRange(granted_scopes)

\* invalid = set(requested_scopes) - set(granted_scopes)
invalid_scopes(requested_scopes, granted_scopes) ==
    SeqRange(requested_scopes) \ SeqRange(granted_scopes)

\* variant: the client is authenticated before the grant type is looked at
token_error_clientfirst(grant_type, found, client_secret, scope, granted_scopes) ==
    LET c == CHOOSE x \in found : TRUE
    IN  IF found = {}
        THEN [status |-> 401, error |-> "invalid_client"]
        ELSE IF ~clients[c].is_active
        THEN [status |-> 401, error |-> "invalid_client"]
        ELSE IF ~verify_client_secret(client_secret, clients[c].client_secret_hash)
        THEN [status |-> 401, error |-> "invalid_client"]
        ELSE IF grant_type # "client_credentials"
        THEN [status |-> 400, error |-> "unsupported_grant_type"]
        ELSE IF granted_scopes = <<>>
        THEN [status |-> 403, error |-> "access_denied"]
        ELSE IF scope.truthy /\ invalid_scopes(scope.parts, granted_scopes) # {}
        THEN [status |-> 400, error |-> "invalid_scope"]
        ELSE [status |-> 200, error |-> None]

\* the HTTPException token_endpoint raises, in the order of its checks;
\* status 200 when it raises none
token_error(grant_type, found, client_secret, scope, granted_scopes) ==
    LET c == CHOOSE x \in found : TRUE
    IN  IF grant_type # "client_credentials"
        THEN [status |-> 400, error |-> "unsupported_grant_type"]
        ELSE IF found = {}
        THEN [status |-> 401, error |-> "invalid_client"]
        ELSE IF ~clients[c].is_active
        THEN [status |-> 401, error |-> "invalid_client"]
        ELSE IF ~verify_client_secret(client_secret, clients[c].client_secret_hash)
        THEN [status |-> 401, error |-> "invalid_client"]
        ELSE IF granted_scopes = <<>>
        THEN [status |-> 403, error |-> "access_denied"]
        ELSE IF scope.truthy /\ invalid_scopes(scope.parts, granted_scopes) # {}
        THEN [status |-> 400, error |-> "invalid_scope"]
        ELSE [status |-> 200, error |-> None]

\* token_endpoint.  rate_limit_check is a coroutine function and the route
\* calls it without awaiting it, so its body does not run.
token_endpoint(grant_type, client_id, client_secret, scope, granted_scopes) ==
    LET found == ClientByOAuthId(client_id)
        c == CHOOSE x \in found : TRUE
        err == token_error(grant_type, found, client_secret, scope, granted_scopes)
        token_scopes == IF scope.truthy THEN scope.parts ELSE granted_scopes
        issued == IF err.status = 200
                  THEN {create_oauth_token(client_id, token_scopes,
                                           OAuthTokenExpireSeconds, clock)}
                  ELSE {}
    IN  /\ resp = NoResp
        /\ found # {} => granted_scopes \in get_client_scopes(c)
        /\ found = {} => granted_scopes = <<>>
        /\ tokens' = IF err.status = 200 THEN issued ELSE tokens
        /\ resp' = [op |-> "token", grant_type |-> grant_type,
                    client_id |-> client_id, client_secret |-> client_secret,
                    scope |-> scope,
                    granted |-> SeqRange(granted_scopes),
                    status |-> err.status, detail |-> err.error,
                    issued |-> issued]
        /\ made' = Received(made, <<"oauth:token", client_id>>)
        /\ UNCHANGED <<users, clients, apikeys, subs, resolved, revoked, apiversions, endpoints>>
        /\ UNCHANGED limiterVars

\* --------------------------------------------------- a protected request

\* the statement at which the database is made to fail is one the handler
\* reaches with this key
FailureReached(api_key, fail) ==
    LET clean == get_api_key_client(api_key, apikeys, clients, subs, clock, "none")
        failed == get_api_key_client(api_key, apikeys, clients, subs, clock, fail)
    IN  fail = "none" \/ failed # clean

\* a request to an operation that depends on get_auth_context
resolve(credentials, api_key, fail) ==
    LET jwt_auth == get_current_user_optional(credentials, clock)
        r == get_api_key_client(api_key, apikeys, clients, subs, clock, fail)
        out == Response(get_auth_context(jwt_auth, r.dep))
    IN  /\ resp = NoResp
        /\ FailureReached(api_key, fail)
        /\ resolved' = IF r.dep.kind = "ctx"
                       THEN resolved \cup {r.dep.ctx.identity_id} ELSE resolved
        /\ resp' = [op |-> "resolve", bearer |-> credentials, api_key |-> api_key,
                    fail |-> fail, last_used_at |-> r.last_used_at] @@ out
        /\ UNCHANGED <<users, clients, apikeys, subs, tokens, revoked, made, apiversions, endpoints>>
        /\ UNCHANGED limiterVars

\* a request to an operation that depends on RoleChecker(allowed_roles):
\* the X-API-Key header is not among its dependencies and is not read
role_checker_request(credentials, api_key, allowed_roles) ==
    LET out == Response(RoleChecker(allowed_roles,
                                    get_current_user(credentials, clock)))
    IN  /\ resp = NoResp
        /\ resp' = [op |-> "role_checker", bearer |-> credentials,
                    api_key |-> api_key, allowed |-> allowed_roles] @@ out
        /\ UNCHANGED <<users, clients, apikeys, subs, tokens, resolved, revoked, made, apiversions, endpoints>>
        /\ UNCHANGED limiterVars

\* a request to an operation wrapped in require_role(*roles) whose auth
\* argument depends on get_auth_context
require_role_request(credentials, api_key, roles) ==
    LET jwt_auth == get_current_user_optional(credentials, clock)
        r == get_api_key_client(api_key, apikeys, clients, subs, clock, "none")
        out == Response(require_role(roles, get_auth_context(jwt_auth, r.dep)))
    IN  /\ resp = NoResp
        /\ resolved' = IF r.dep.kind = "ctx"
                       THEN resolved \cup {r.dep.ctx.identity_id} ELSE resolved
        /\ resp' = [op |-> "require_role", bearer |-> credentials,
                    api_key |-> api_key, allowed |-> roles] @@ out
        /\ UNCHANGED <<users, clients, apikeys, subs, tokens, revoked, made, apiversions, endpoints>>
        /\ UNCHANGED limiterVars

\* a request to an operation that depends on verify_scopes(required_scopes)
verify_scopes_request(credentials, api_key, required_scopes) ==
    LET jwt_auth == get_current_user_optional(credentials, clock)
        r == get_api_key_client(api_key, apikeys, clients, subs, clock, "none")
        out == Response(verify_scopes(required_scopes,
                                      get_auth_context(jwt_auth, r.dep)))
    IN  /\ resp = NoResp
        /\ resolved' = IF r.dep.kind = "ctx"
                       THEN resolved \cup {r.dep.ctx.identity_id} ELSE resolved
        /\ resp' = [op |-> "verify_scopes", bearer |-> credentials,
                    api_key |-> api_key, required |-> required_scopes] @@ out
        /\ UNCHANGED <<users, clients, apikeys, subs, tokens, revoked, made, apiversions, endpoints>>
        /\ UNCHANGED limiterVars

\* create_access_token(data) and decode_token of the string it returns
issue_access_token(data) ==
    LET p == create_access_token(data, clock)
    IN  /\ resp = NoResp
        /\ tokens' = {p}
        /\ resp' = [op |-> "issue", type |-> "access", claims |-> data,
                    ttl |-> AccessTokenExpireMinutes * 60, now |-> clock,
                    result |-> decode_token([form |-> "intact", payload |-> p], clock)]
        /\ UNCHANGED <<users, clients, apikeys, subs, resolved, revoked, made, apiversions, endpoints>>
        /\ UNCHANGED limiterVars

\* create_refresh_token(data) and decode_token of the string it returns
issue_refresh_token(data) ==
    LET p == create_refresh_token(data, clock)
    IN  /\ resp = NoResp
        /\ tokens' = {p}
        /\ resp' = [op |-> "issue", type |-> "refresh", claims |-> data,
                    ttl |-> RefreshTokenExpireDays * 24 * 3600, now |-> clock,
                    result |-> decode_token([form |-> "intact", payload |-> p], clock)]
        /\ UNCHANGED <<users, clients, apikeys, subs, resolved, revoked, made, apiversions, endpoints>>
        /\ UNCHANGED limiterVars

\* create_oauth_token(client_id, scopes, expires_in) and decode_token of the
\* string it returns
issue_oauth_token(client_id, scopes, expires_in) ==
    LET p == create_oauth_token(client_id, scopes, expires_in, clock)
    IN  /\ resp = NoResp
        /\ tokens' = {p}
        /\ resp' = [op |-> "issue", type |-> "oauth_client",
                    claims |-> [sub |-> client_id, scopes |-> scopes],
                    ttl |-> expires_in, now |-> clock,
                    result |-> decode_token([form |-> "intact", payload |-> p], clock)]
        /\ UNCHANGED <<users, clients, apikeys, subs, resolved, revoked, made, apiversions, endpoints>>
        /\ UNCHANGED limiterVars

\* variant: introspection answering 401 for a token that does not decode
introspect_result_unauthorized(token, now) ==
    LET d == decode_token(token, now)
    IN  IF d.ret = "raise" THEN [status |-> 500]
        ELSE IF d.ret = "None" THEN [status |-> 401, active |-> FALSE]
        ELSE [status |-> 200, active |-> TRUE,
              client_id |-> Get(d.payload, "sub"),
              scope |-> payload_scopes(d.payload),
              exp |-> d.payload.exp, iat |-> d.payload.iat]

\* the body introspect_token returns; " ".join(scopes) is kept as the list
\* of the names it joins
introspect_result(token, now) ==
    LET d == decode_token(token, now)
    IN  IF d.ret = "raise" THEN [status |-> 500]
        ELSE IF d.ret = "None" THEN [status |-> 200, active |-> FALSE]
        ELSE [status |-> 200, active |-> TRUE,
              client_id |-> Get(d.payload, "sub"),
              scope |-> payload_scopes(d.payload),
              exp |-> d.payload.exp, iat |-> d.payload.iat]

\* the route POST /oauth/introspect
introspect_token(token) ==
    /\ resp = NoResp
    /\ resp' = [op |-> "introspect", token |-> token]
                    @@ introspect_result(token, clock)
    /\ UNCHANGED <<users, clients, apikeys, subs, tokens, resolved, revoked, made, apiversions, endpoints>>
    /\ UNCHANGED limiterVars

\* decode_token(token) at the current time
decode_request(token) ==
    /\ resp = NoResp
    /\ resp' = [op |-> "decode", token |-> token, now |-> clock,
                result |-> decode_token(token, clock)]
    /\ UNCHANGED <<users, clients, apikeys, subs, tokens, resolved, revoked, made, apiversions, endpoints>>
    /\ UNCHANGED limiterVars

\* generate_api_key(), with the string secrets.token_urlsafe returned
generate_api_key(full_key) ==
    /\ resp = NoResp
    /\ resp' = [op |-> "generate_api_key", full_key |-> full_key,
                prefix |-> SubSeq(full_key, 1,
                                  IF Len(full_key) < ApiKeyPrefixLength
                                  THEN Len(full_key) ELSE ApiKeyPrefixLength),
                key_hash |-> _hmac_sha256_hex(API_KEY_HASH_SECRET, full_key)]
    /\ UNCHANGED <<users, clients, apikeys, subs, tokens, resolved, revoked, made, apiversions, endpoints>>
    /\ UNCHANGED limiterVars

\* generate_client_secret(), with the string secrets.token_urlsafe returned,
\* followed by verify_client_secret of a presented string against the hash
generate_client_secret(secret, presented) ==
    LET hashed == _hmac_sha256_hex(API_KEY_HASH_SECRET, secret)
    IN  /\ resp = NoResp
        /\ resp' = [op |-> "generate_client_secret", secret |-> secret,
                    hashed |-> hashed, presented |-> presented,
                    verified |-> verify_client_secret(presented, hashed)]
        /\ UNCHANGED <<users, clients, apikeys, subs, tokens, resolved, revoked, made, apiversions, endpoints>>
        /\ UNCHANGED limiterVars

\* verify_client_secret(secret, stored_hash) on any pair of strings
verify_request(secret, stored_hash) ==
    /\ resp = NoResp
    /\ resp' = [op |-> "verify_client_secret", secret |-> secret,
                stored_hash |-> stored_hash,
                result |-> verify_client_secret(secret, stored_hash)]
    /\ UNCHANGED <<users, clients, apikeys, subs, tokens, resolved, revoked, made, apiversions, endpoints>>
    /\ UNCHANGED limiterVars

\* the response has been sent
respond ==
    /\ resp # NoResp
    /\ resp' = NoResp
    /\ UNCHANGED <<users, clients, apikeys, subs, tokens, resolved, revoked, made, apiversions, endpoints>>
    /\ UNCHANGED limiterVars

\* the expiry instants a key can be created with
ExpiryChoices == {NoValue, <<OAuthTokenExpireSeconds * TicksPerSecond>>}

\* the forms posted to the token endpoint: every scope parameter with the
\* right credentials, and each wrong credential
TokenRequests ==
    {<<"client_credentials", OAuthId[c], ClientSecret(c), sp>> :
        c \in Clients, sp \in ScopeParams}
    \cup {<<"password", OAuthId[c], ClientSecret(c), [truthy |-> FALSE, parts |-> <<>>]>> :
        c \in Clients}
    \cup {<<"client_credentials", OAuthId[c], cs, [truthy |-> FALSE, parts |-> <<>>]>> :
        c \in Clients, cs \in {<<"cs", "wrong">>, <<"">>}}

\* the identity scenario has one subscription on one API version
AuthSubs == {"s1"}
AuthVersions == {"v1"}

\* the roles an account is registered with, and the patches of update_user
RegisterRoles == {"developer", "platform_admin"}
UpdateChoices ==
    {<<<<FALSE>>, NoValue, NoValue>>, <<<<TRUE>>, NoValue, NoValue>>,
     <<NoValue, <<"o1">>, NoValue>>, <<NoValue, NoValue, <<"platform_admin">>>>,
     <<<<FALSE>>, NoValue, <<"developer">>>>}

NextAuth ==
    \/ \E d \in AuthAdvances : Tick(d)
    \/ \E u \in Users, role \in RegisterRoles : register_user(u, role)
    \/ \E u \in Users, p \in UpdateChoices : update_user(u, p[1], p[2], p[3])
    \/ \E u \in Users, ok \in BOOLEAN : login(u, ok)
    \/ \E b \in Bearers \ {NoBearer} : refresh_tokens(b)
    \/ \E c \in Clients, o \in Orgs : create_app_client(c, o)
    \/ \E c \in Clients : deactivate_app_client(c)
    \/ \E k \in KeyIds, c \in Clients, e \in ExpiryChoices : create_api_key(k, c, e)
    \/ \E b \in Bearers, c \in Clients, k \in KeyIds :
            b.form \in {"absent", "intact"} /\ revoke_api_key(b, c, k)
    \/ \E x \in AuthSubs, c \in Clients, v \in AuthVersions, rq \in {Scopes} :
            create_subscription_request(x, c, v, rq)
    \/ \E x \in AuthSubs, g \in {{ScopeOrder[1]}, Scopes}, rl \in RateLimitChoices :
            approve_subscription(x, g, rl)
    \/ \E x \in AuthSubs : deny_subscription(x)
    \/ \E x \in AuthSubs : revoke_subscription(x)
    \/ \E rq \in TokenRequests, gs \in UNION {Orderings(S) : S \in SUBSET Scopes} :
            token_endpoint(rq[1], rq[2], rq[3], rq[4], gs)
    \/ \E b \in Bearers, k \in ApiKeys, f \in DbFailures : resolve(b, k, f)
    \/ respond

SpecAuth == Init /\ [][NextAuth]_vars

\* the clock advances of the key scenario: to the expiry instant of a key,
\* and one tick past it
KeyAdvances == {OAuthTokenExpireSeconds * TicksPerSecond, 1}
KeyFailures ==
    {"none", "key_lookup", "client_lookup", "scopes_query", "last_used_update"}

\* API keys only: clients, keys with and without expiry, two subscriptions
\* of the client, and requests that carry an X-API-Key header and no bearer
NextKeys ==
    \/ \E d \in KeyAdvances : Tick(d)
    \/ \E c \in Clients, o \in Orgs : create_app_client(c, o)
    \/ \E c \in Clients : deactivate_app_client(c)
    \/ \E k \in KeyIds, c \in Clients, e \in ExpiryChoices : create_api_key(k, c, e)
    \/ \E x \in Subs, c \in Clients, v \in Versions, rq \in {Scopes} :
            create_subscription_request(x, c, v, rq)
    \/ \E x \in Subs, g \in {{ScopeOrder[1]}, {ScopeOrder[2]}, Scopes},
          rl \in RateLimitChoices :
            approve_subscription(x, g, rl)
    \/ \E x \in Subs : deny_subscription(x)
    \/ \E x \in Subs : revoke_subscription(x)
    \/ \E k \in ApiKeys, f \in KeyFailures : resolve(NoBearer, k, f)
    \/ respond

SpecKeys == Init /\ [][NextKeys]_vars

\* the forms posted to the token endpoint in the OAuth scenario: each grant
\* type, a known and an unknown client, each secret, each scope parameter
OAuthRequests ==
    {<<g, id, cs, sp>> :
        g \in {"client_credentials", "password"},
        id \in {OAuthId[c] : c \in Clients} \cup {"oauth_unknown"},
        cs \in {ClientSecret(c) : c \in Clients} \cup {<<"cs", "wrong">>},
        sp \in ScopeParams}

\* the client-credentials flow: clients, two subscriptions of the client,
\* the token endpoint, and requests that carry the token as bearer
NextOAuth ==
    \/ \E d \in KeyAdvances : Tick(d)
    \/ \E c \in Clients, o \in Orgs : create_app_client(c, o)
    \/ \E c \in Clients : deactivate_app_client(c)
    \/ \E x \in Subs, c \in Clients, v \in Versions, rq \in {Scopes} :
            create_subscription_request(x, c, v, rq)
    \/ \E x \in Subs, g \in {{ScopeOrder[1]}, Scopes}, rl \in RateLimitChoices :
            approve_subscription(x, g, rl)
    \/ \E x \in Subs : deny_subscription(x)
    \/ \E x \in Subs : revoke_subscription(x)
    \/ \E rq \in OAuthRequests, gs \in UNION {Orderings(S) : S \in SUBSET Scopes} :
            token_endpoint(rq[1], rq[2], rq[3], rq[4], gs)
    \/ \E b \in Bearers : b.form \in {"absent", "intact"} /\ resolve(b, NoValue, "none")
    \/ respond

SpecOAuth == Init /\ [][NextOAuth]_vars

\* the payloads a token that verifies under JWT_SECRET can decode to: access
\* tokens with sub and role present, empty or missing and with a role
\* outside the enumeration, OAuth-client tokens with and without sub, scopes
\* and a role claim, and a refresh token.  None of them expires in a run.
PayloadBase(type) == [type |-> type, iat |-> 0, exp |-> 100000000]
OptionalField(f, values) == {<<>>} \cup {(f :> v) : v \in values}
GatePayloads ==
    {s @@ r @@ PayloadBase("access") :
        s \in OptionalField("sub", {"u1", ""}),
        r \in OptionalField("role", Roles \cup {"", "superuser"})}
    \cup {s @@ sc @@ r @@ PayloadBase("oauth_client") :
            s \in OptionalField("sub", {OAuthId[c] : c \in Clients}),
            sc \in OptionalField("scopes", {<<>>, <<ScopeOrder[1]>>, ScopeOrder}),
            r \in OptionalField("role", {"platform_admin"})}
    \cup {[sub |-> "u1", role |-> "platform_admin"] @@ PayloadBase("refresh")}

\* the role lists and scope lists operations are declared with
AllowedRoleSets == {{"platform_admin"}, {"platform_admin", "org_admin"}, Roles}
RequiredScopeLists == {<<>>, <<ScopeOrder[1]>>, <<ScopeOrder[2]>>, ScopeOrder}

\* the caller holds one token that verifies, with any of the payloads
InitGate ==
    /\ clock = 0
    /\ nadv = 0
    /\ ncalls = 0
    /\ nadmin = 0
    /\ lock = NoThread
    /\ requests = [k \in LimiterKeys |-> <<>>]
    /\ limits = [k \in LimiterKeys |-> Unset]
    /\ th = [t \in Threads |-> Idle]
    /\ results = [k \in Keys |-> <<>>]
    /\ dirty = [k \in Keys |-> FALSE]
    /\ users = [u \in Users |-> NoRow]
    /\ clients = [c \in Clients |-> NoRow]
    /\ apikeys = [k \in KeyIds |-> NoRow]
    /\ subs = [x \in Subs |-> NoRow]
    /\ tokens \in {{p} : p \in GatePayloads}
    /\ resp = NoResp
    /\ resolved = {}
    /\ revoked = {}
    /\ made = <<>>
    /\ apiversions = [v \in Versions |-> NoRow]
    /\ endpoints = [e \in Endpoints |-> NoRow]

GateBearers == {b \in Bearers : b.form \in {"absent", "intact"}}
GateKeys == {NoValue} \cup {KeySecret(k) : k \in KeyIds}

\* the gates of the protected operations, applied to every payload and to
\* the API key of a client with and without granted scopes
NextGate ==
    \/ \E c \in Clients, o \in Orgs : create_app_client(c, o)
    \/ \E k \in KeyIds, c \in Clients : create_api_key(k, c, NoValue)
    \/ \E x \in AuthSubs, c \in Clients, v \in AuthVersions, rq \in {Scopes} :
            create_subscription_request(x, c, v, rq)
    \/ \E x \in AuthSubs, g \in {{ScopeOrder[1]}, Scopes}, rl \in RateLimitChoices :
            approve_subscription(x, g, rl)
    \/ \E b \in GateBearers, k \in GateKeys : resolve(b, k, "none")
    \/ \E b \in GateBearers, k \in GateKeys, a \in AllowedRoleSets :
            role_checker_request(b, k, a)
    \/ \E b \in GateBearers, k \in GateKeys, a \in AllowedRoleSets :
            require_role_request(b, k, a)
    \/ \E b \in GateBearers, k \in GateKeys, rs \in RequiredScopeLists :
            verify_scopes_request(b, k, rs)
    \/ respond

SpecGate == InitGate /\ [][NextGate]_vars

\* the clock advances of the session scenario: to the next second, and by
\* the lifetime of a refresh token
RefreshAdvances ==
    {TicksPerSecond, RefreshTokenExpireDays * 24 * 3600 * TicksPerSecond}

\* user sessions: accounts, login, refresh, and the revocation of the
\* refresh tokens of a user
NextRefresh ==
    \/ \E d \in RefreshAdvances : Tick(d)
    \/ \E u \in Users, role \in RegisterRoles : register_user(u, role)
    \/ \E u \in Users, p \in UpdateChoices : update_user(u, p[1], p[2], p[3])
    \/ \E u \in Users, ok \in BOOLEAN : login(u, ok)
    \/ \E b \in Bearers \ {NoBearer} : refresh_tokens(b)
    \/ \E u \in Users : revoke_refresh_tokens(u)
    \/ respond

SpecRefresh == Init /\ [][NextRefresh]_vars

\* the claim sets of the tokens presented to /auth/refresh: the fields
\* token_data writes, for a registered and for an unknown user id and for
\* two values of the version counter
SessionData ==
    {[sub |-> u, email |-> "u1", role |-> "developer", org_id |-> None, tv |-> v] :
        u \in Users \cup {"u9"}, v \in {0, 1}}
SessionPayloads ==
    {create_refresh_token(d, 0) : d \in SessionData}
    \cup {create_access_token(d, 0) : d \in SessionData}

\* the caller holds one token signed at time 0 with one of the claim sets
InitSession ==
    /\ clock = 0
    /\ nadv = 0
    /\ ncalls = 0
    /\ nadmin = 0
    /\ lock = NoThread
    /\ requests = [k \in LimiterKeys |-> <<>>]
    /\ limits = [k \in LimiterKeys |-> Unset]
    /\ th = [t \in Threads |-> Idle]
    /\ results = [k \in Keys |-> <<>>]
    /\ dirty = [k \in Keys |-> FALSE]
    /\ users = [u \in Users |-> NoRow]
    /\ clients = [c \in Clients |-> NoRow]
    /\ apikeys = [k \in KeyIds |-> NoRow]
    /\ subs = [x \in Subs |-> NoRow]
    /\ tokens \in {{p} : p \in SessionPayloads}
    /\ resp = NoResp
    /\ resolved = {}
    /\ revoked = {}
    /\ made = <<>>
    /\ apiversions = [v \in Versions |-> NoRow]
    /\ endpoints = [e \in Endpoints |-> NoRow]

SpecSession == InitSession /\ [][NextRefresh]_vars

\* the clock advances of the token scenario: half a second, and the
\* lifetime of each token type
TokenAdvances ==
    {1, OAuthTokenExpireSeconds * TicksPerSecond,
     AccessTokenExpireMinutes * 60 * TicksPerSecond,
     RefreshTokenExpireDays * 24 * 3600 * TicksPerSecond}

\* the claim sets handed to the issuing functions
TokenClaims ==
    {[sub |-> "u1", email |-> "u1", role |-> r, org_id |-> o, tv |-> 0] :
        r \in {"developer", "platform_admin"}, o \in {None, "o1"}}
ScopeLists == {<<>>, <<ScopeOrder[1]>>, ScopeOrder}
ExpiresInChoices == {1, OAuthTokenExpireSeconds}

\* utils/security.py alone: tokens of each type are issued and decoded as
\* time passes
NextTokens ==
    \/ \E d \in TokenAdvances : Tick(d)
    \/ \E data \in TokenClaims : issue_access_token(data)
    \/ \E data \in TokenClaims : issue_refresh_token(data)
    \/ \E c \in Clients, sc \in ScopeLists, e \in ExpiresInChoices :
            issue_oauth_token(OAuthId[c], sc, e)
    \/ \E b \in Bearers \ {NoBearer} : decode_request(b)
    \/ \E b \in Bearers \ {NoBearer} : introspect_token(b)
    \/ respond

SpecTokens == Init /\ [][NextTokens]_vars

\* the strings secrets.token_urlsafe can return, cut down to SecretLen
\* characters of a three-letter alphabet
SecretAlphabet == {"a", "b", "c"}
SecretStrings == [1..SecretLen -> SecretAlphabet]

\* the strings that differ from p by one character: one replaced, one
\* removed, or one added at the end
Mutations(p) ==
    ({[p EXCEPT ![i] = ch] : i \in 1..Len(p), ch \in SecretAlphabet} \ {p})
    \cup {SubSeq(p, 1, i - 1) \o SubSeq(p, i + 1, Len(p)) : i \in 1..Len(p)}
    \cup {Append(p, ch) : ch \in SecretAlphabet}

\* the secrets module of utils/security.py alone
NextSecrets ==
    \/ \E k \in SecretStrings : generate_api_key(k)
    \/ \E p \in SecretStrings : \E q \in {p} \cup (Mutations(p) \ {<<>>}) :
            generate_client_secret(p, q)
    \/ \E p \in SecretStrings \cup {<<"">>},
          h \in {_hmac_sha256_hex(API_KEY_HASH_SECRET, q) : q \in SecretStrings}
                \cup {<<"">>} :
            verify_request(p, h)
    \/ respond

SpecSecrets == Init /\ [][NextSecrets]_vars

\* request threads of the worker pool call the shared limiter concurrently
\* ------------------------- rate_limit_check (middleware/rate_limiter.py)

\* the headers of an allowed check, lines 203-211; str() of an integer is
\* kept as the integer
AllowedHeaders(info) ==
    ("X-RateLimit-Limit" :> info.limit)
    @@ ("X-RateLimit-Remaining" :> info.remaining_minute)
    @@ ("X-RateLimit-Reset" :> info.reset_in_minute)
    @@ ("X-RateLimit-Limit-Hour" :> info.limit_hour)
    @@ ("X-RateLimit-Remaining-Hour" :> info.remaining_hour)
    @@ ("X-RateLimit-Reset-Hour" :> info.reset_in_hour)

\* the headers of the HTTPException of a denied check, lines 194-199;
\* reset_in is the retry_after of the denial (lines 108-109, 120-121)
DeniedHeaders(info) ==
    ("Retry-After" :> info.retry_after)
    @@ ("X-RateLimit-Limit" :> info.limit)
    @@ ("X-RateLimit-Remaining" :> 0)
    @@ ("X-RateLimit-Reset" :> info.retry_after)

\* rate_limit_check, lines 176-211, applied to what check_rate_limit returned
rate_limit_check(info) ==
    IF ~info.allowed
    THEN [kind |-> "http", status |-> 429,
          detail |-> [error |-> "Rate limit exceeded",
                      limit_type |-> info.limit_type,
                      limit |-> info.limit,
                      retry_after |-> info.retry_after],
          headers |-> DeniedHeaders(info)]
    ELSE [kind |-> "headers", headers |-> AllowedHeaders(info)]

\* an awaited call of rate_limit_check(key) by the only caller:
\* check_rate_limit (lines 90-144) runs as one step, then lines 185-211
rate_limit_check_request(k) ==
    /\ resp = NoResp
    /\ th["t1"].pc = "idle"
    /\ lock = NoThread
    /\ ncalls < MaxChecks
    /\ ncalls' = ncalls + 1
    /\ LET lim == get_limit(limits, k)
           r == CheckBody(requests[k], clock, lim[1], lim[2])
       IN  /\ requests' = [requests EXCEPT ![k] = r.q]
           /\ results' = [results EXCEPT ![k] = Append(@, ResultOf(r))]
           /\ resp' = [op |-> "rate_limit_check", key |-> k,
                       info |-> ResultOf(r),
                       outcome |-> rate_limit_check(ResultOf(r))]
    /\ UNCHANGED <<clock, nadv, nadmin, lock, limits, th, dirty>>
    /\ UNCHANGED <<users, clients, apikeys, subs, tokens, resolved, revoked, made, apiversions, endpoints>>

\* how far the clock moves between two checks in the header scenarios
HeaderAdvances == {1, MinuteWindow, HourWindow}

NextHeaders ==
    \/ \E d \in HeaderAdvances : Tick(d)
    \/ \E k \in Keys : rate_limit_check_request(k)
    \/ \E k \in Keys, pm \in PerMinuteValues, ph \in PerHourValues :
            set_limit_lock("t1", k, pm, ph)
    \/ set_limit_body("t1")
    \/ respond

SpecHeaders == Init /\ [][NextHeaders]_vars

\* ------------------------------------ API versions (routes/api_routes.py)

_is_platform_admin(auth) == auth.role = "platform_admin"

_is_org_owner_or_platform(auth, resource_org_id) ==
    IF _is_platform_admin(auth) THEN TRUE
    ELSE IF Falsy(auth.org_id) THEN FALSE
    ELSE auth.org_id = resource_org_id

\* the HTTPException of _ensure_can_mutate_owned_resource, if it raises
_ensure_can_mutate_owned_resource(auth, resource_org_id) ==
    IF _is_org_owner_or_platform(auth, resource_org_id) THEN {}
    ELSE {DepHttp(403, "Access denied")}

\* the HTTPException of _ensure_draft, if it raises
_ensure_draft(status, action) ==
    IF status # "draft" THEN {DepHttp(400, <<"Cannot", action, "non-draft resource">>)}
    ELSE {}

\* the dependency of a version route: RoleChecker(allowed_roles) over the
\* bearer token of the request
VersionAuth(allowed_roles, credentials) ==
    RoleChecker(allowed_roles, get_current_user(credentials, clock))

\* what a version route does before it writes, auth being what its
\* dependency RoleChecker gave: the lookup of the version (its product
\* exists with it), the ownership check and the check of the status the
\* route asks for
VersionChecks(auth, v, status_errors) ==
    IF auth.kind # "ctx" THEN auth
    ELSE IF ~apiversions[v].exists THEN DepHttp(404, "API version not found")
    ELSE
    LET denied == _ensure_can_mutate_owned_resource(auth.ctx, apiversions[v].org_id)
    IN  IF denied # {} THEN CHOOSE e \in denied : TRUE
        ELSE IF status_errors # {} THEN CHOOSE e \in status_errors : TRUE
        ELSE auth

\* create_api_version after its dependency: the ownership check against
\* the product's organization, then the insert of a version that exists
CreateVersionChecks(auth, v, o) ==
    IF auth.kind # "ctx" THEN auth
    ELSE
    LET denied == _ensure_can_mutate_owned_resource(auth.ctx, o)
    IN  IF denied # {} THEN CHOOSE e \in denied : TRUE
        ELSE IF apiversions[v].exists
        THEN DepHttp(400, "Version already exists for this product")
        ELSE auth

\* APIService.update_version: the status is written when the data has one
update_version(rows, v, status) ==
    IF status = NoValue THEN rows ELSE [rows EXCEPT ![v].status = status[1]]

\* POST /apis/products/{product_id}/versions for a product of org o
create_api_version(credentials, v, o) ==
    \E auth \in {VersionAuth(Roles, credentials)} :
    \E out \in {CreateVersionChecks(auth, v, o)} :
        /\ resp = NoResp
        /\ apiversions' = IF out.kind = "ctx"
                           THEN [apiversions EXCEPT ![v] =
                                    [exists |-> TRUE, org_id |-> o, status |-> "draft"]]
                           ELSE apiversions
        /\ UNCHANGED endpoints
        /\ resp' = [op |-> "create_api_version", bearer |-> credentials,
                    version |-> v] @@ Response(out)
        /\ UNCHANGED <<users, clients, apikeys, subs, tokens, resolved, revoked, made>>
        /\ UNCHANGED limiterVars

\* PATCH /apis/versions/{version_id} with data.status
update_api_version(credentials, v, status) ==
    \E auth \in {VersionAuth(Roles, credentials)} :
    \E out \in {VersionChecks(auth, v,
                    IF apiversions[v].exists
                    THEN _ensure_draft(apiversions[v].status, "update version")
                    ELSE {})} :
        /\ resp = NoResp
        /\ apiversions' = IF out.kind = "ctx"
                           THEN update_version(apiversions, v, status)
                           ELSE apiversions
        /\ UNCHANGED endpoints
        /\ resp' = [op |-> "update_api_version", bearer |-> credentials,
                    version |-> v, data |-> status] @@ Response(out)
        /\ UNCHANGED <<users, clients, apikeys, subs, tokens, resolved, revoked, made>>
        /\ UNCHANGED limiterVars

\* POST /apis/versions/{version_id}/publish
publish_api_version(credentials, v) ==
    \E auth \in {VersionAuth({"platform_admin", "org_admin"}, credentials)} :
    \E out \in {VersionChecks(auth, v,
                    IF apiversions[v].exists
                    THEN _ensure_draft(apiversions[v].status, "publish")
                    ELSE {})} :
        /\ resp = NoResp
        /\ apiversions' = IF out.kind = "ctx"
                           THEN update_version(apiversions, v, <<"published">>)
                           ELSE apiversions
        /\ UNCHANGED endpoints
        /\ resp' = [op |-> "publish_api_version", bearer |-> credentials,
                    version |-> v] @@ Response(out)
        /\ UNCHANGED <<users, clients, apikeys, subs, tokens, resolved, revoked, made>>
        /\ UNCHANGED limiterVars

\* APIService.deprecate_version, lines 244-255: the active endpoints of the
\* version are deactivated
DeactivateEndpoints(rows, v) ==
    [e \in DOMAIN rows |->
        IF rows[e].exists /\ rows[e].version_id = v /\ rows[e].is_active
        THEN [rows[e] EXCEPT !.is_active = FALSE] ELSE rows[e]]

\* POST /apis/versions/{version_id}/deprecate
deprecate_api_version(credentials, v) ==
    \E auth \in {VersionAuth({"platform_admin", "org_admin"}, credentials)} :
    \E out \in {VersionChecks(auth, v,
                    IF apiversions[v].exists /\ apiversions[v].status # "published"
                    THEN {DepHttp(400, "Only published versions can be deprecated")}
                    ELSE {})} :
        /\ resp = NoResp
        /\ apiversions' = IF out.kind = "ctx"
                           THEN update_version(apiversions, v, <<"deprecated">>)
                           ELSE apiversions
        /\ endpoints' = IF out.kind = "ctx"
                         THEN DeactivateEndpoints(endpoints, v) ELSE endpoints
        /\ resp' = [op |-> "deprecate_api_version", bearer |-> credentials,
                    version |-> v] @@ Response(out)
        /\ UNCHANGED <<users, clients, apikeys, subs, tokens, resolved, revoked, made>>
        /\ UNCHANGED limiterVars

\* POST /apis/versions/{version_id}/endpoints over APIService.create_endpoint;
\* e stands for the method and path of the request, no scopes are required
create_endpoint(credentials, v, e, summary) ==
    \E auth \in {VersionAuth(Roles, credentials)} :
    \E out \in {VersionChecks(auth, v,
                    IF endpoints[e].exists
                    THEN {DepHttp(400, "Endpoint already exists")}
                    ELSE {})} :
        /\ resp = NoResp
        /\ endpoints' = IF out.kind = "ctx"
                         THEN [endpoints EXCEPT ![e] =
                                [exists |-> TRUE, version_id |-> v,
                                 summary |-> summary, is_active |-> TRUE]]
                         ELSE endpoints
        /\ resp' = [op |-> "create_endpoint", bearer |-> credentials,
                    version |-> v, endpoint |-> e] @@ Response(out)
        /\ UNCHANGED <<users, clients, apikeys, subs, tokens, resolved, revoked, made,
                       apiversions>>
        /\ UNCHANGED limiterVars

\* update_endpoint after its dependency: the lookup of the endpoint, then
\* the checks on its version
EndpointChecks(auth, e) ==
    IF auth.kind # "ctx" THEN auth
    ELSE IF ~endpoints[e].exists THEN DepHttp(404, "Endpoint not found")
    ELSE VersionChecks(auth, endpoints[e].version_id, {})

\* PATCH /apis/endpoints/{endpoint_id} over APIService.update_endpoint: the
\* fields given (a one-element tuple) are written
update_endpoint(credentials, e, summary, is_active) ==
    \E v \in {IF endpoints[e].exists THEN endpoints[e].version_id ELSE None} :
    \E auth \in {VersionAuth(Roles, credentials)} :
    \E out \in {EndpointChecks(auth, e)} :
        /\ resp = NoResp
        /\ endpoints' = IF out.kind = "ctx"
                         THEN [endpoints EXCEPT ![e] =
                                [@ EXCEPT
                                   !.summary = IF summary = NoValue THEN @ ELSE summary[1],
                                   !.is_active = IF is_active = NoValue THEN @
                                                 ELSE is_active[1]]]
                         ELSE endpoints
        /\ resp' = [op |-> "update_endpoint", bearer |-> credentials,
                    version |-> v, endpoint |-> e] @@ Response(out)
        /\ UNCHANGED <<users, clients, apikeys, subs, tokens, resolved, revoked, made,
                       apiversions>>
        /\ UNCHANGED limiterVars

\* the access tokens of a user with each role, in no organization, in the
\* organization that owns the products and in another one, and the token
\* of an app client
VersionPayloads ==
    {[sub |-> "u1", email |-> "u1", role |-> r, org_id |-> o, tv |-> 0]
        @@ PayloadBase("access") : r \in Roles, o \in {None} \cup Orgs \cup {"o2"}}
    \cup {[sub |-> OAuthId["c1"], scopes |-> ScopeOrder] @@ PayloadBase("oauth_client")}

\* the status a PATCH can carry
StatusChoices == {NoValue, <<"draft">>, <<"published">>, <<"deprecated">>}

InitVersions ==
    /\ clock = 0
    /\ nadv = 0
    /\ ncalls = 0
    /\ nadmin = 0
    /\ lock = NoThread
    /\ requests = [k \in LimiterKeys |-> <<>>]
    /\ limits = [k \in LimiterKeys |-> Unset]
    /\ th = [t \in Threads |-> Idle]
    /\ results = [k \in Keys |-> <<>>]
    /\ dirty = [k \in Keys |-> FALSE]
    /\ users = [u \in Users |-> NoRow]
    /\ clients = [c \in Clients |-> NoRow]
    /\ apikeys = [k \in KeyIds |-> NoRow]
    /\ subs = [x \in Subs |-> NoRow]
    /\ tokens \in {{p} : p \in VersionPayloads}
    /\ resp = NoResp
    /\ resolved = {}
    /\ revoked = {}
    /\ made = <<>>
    /\ apiversions \in [Versions -> {NoRow} \cup
            {[exists |-> TRUE, org_id |-> o, status |-> "draft"] : o \in Orgs}]
    /\ endpoints = [e \in Endpoints |-> NoRow]

NextVersions ==
    \/ \E b \in GateBearers, v \in Versions, o \in Orgs : create_api_version(b, v, o)
    \/ \E b \in GateBearers, v \in Versions, st \in StatusChoices :
            update_api_version(b, v, st)
    \/ \E b \in GateBearers, v \in Versions : publish_api_version(b, v)
    \/ \E b \in GateBearers, v \in Versions : deprecate_api_version(b, v)
    \/ \E b \in GateBearers, v \in Versions, e \in Endpoints :
            create_endpoint(b, v, e, "summary")
    \/ \E b \in GateBearers, e \in Endpoints, sm \in {NoValue, <<"changed">>},
          ia \in {NoValue, <<TRUE>>, <<FALSE>>} :
            update_endpoint(b, e, sm, ia)
    \/ respond

SpecVersions == InitVersions /\ [][NextVersions]_vars

\* ------------------------------- initial setup (routes/admin_routes.py)

\* the e-mail addresses setup and registration requests carry
SetupUsers == {"a1", "a2"}

\* initial_setup, line 109: existing_user = db.query(User.id).limit(1).first(),
\* read in the session of the request
initial_setup_query(t, email) ==
    /\ resp = NoResp
    /\ th[t].pc = "idle"
    /\ th' = [th EXCEPT ![t] =
                [pc |-> "queried", op |-> "setup", email |-> email,
                 existing_user |-> \E u \in DOMAIN users : users[u].exists]]
    /\ UNCHANGED <<clock, nadv, ncalls, nadmin, lock, requests, limits, results, dirty>>
    /\ UNCHANGED <<users, clients, apikeys, subs, tokens, resp, resolved, revoked, made,
                   apiversions, endpoints>>

\* initial_setup, lines 110-154: the refusal, or create_platform_admin over
\* register_user, whose commit fails on a registered e-mail address
initial_setup_create(t) ==
    LET email == th[t].email
        status == IF th[t].existing_user \/ users[email].exists THEN 400 ELSE 200
    IN  /\ resp = NoResp
        /\ th[t].pc = "queried"
        /\ th[t].op = "setup"
        /\ users' = IF status = 200
                     THEN [users EXCEPT ![email] =
                            [exists |-> TRUE, role |-> "platform_admin",
                             org_id |-> None, is_active |-> TRUE]]
                     ELSE users
        /\ resp' = [op |-> "initial_setup", user |-> email, status |-> status,
                    existing_user |-> th[t].existing_user,
                    detail |-> IF th[t].existing_user
                               THEN "Setup already completed. Users already exist in the system."
                               ELSE IF status = 400 THEN "Email already registered"
                               ELSE None]
        /\ th' = [th EXCEPT ![t] = Idle]
        /\ UNCHANGED <<clock, nadv, ncalls, nadmin, lock, requests, limits, results, dirty>>
        /\ UNCHANGED <<clients, apikeys, subs, tokens, resolved, revoked, made,
                       apiversions, endpoints>>

InitSetup ==
    /\ clock = 0
    /\ nadv = 0
    /\ ncalls = 0
    /\ nadmin = 0
    /\ lock = NoThread
    /\ requests = [k \in LimiterKeys |-> <<>>]
    /\ limits = [k \in LimiterKeys |-> Unset]
    /\ th = [t \in Threads |-> Idle]
    /\ results = [k \in Keys |-> <<>>]
    /\ dirty = [k \in Keys |-> FALSE]
    /\ users = [u \in SetupUsers |-> NoRow]
    /\ clients = [c \in Clients |-> NoRow]
    /\ apikeys = [k \in KeyIds |-> NoRow]
    /\ subs = [x \in Subs |-> NoRow]
    /\ tokens = {}
    /\ resp = NoResp
    /\ resolved = {}
    /\ revoked = {}
    /\ made = <<>>
    /\ apiversions = [v \in Versions |-> NoRow]
    /\ endpoints = [e \in Endpoints |-> NoRow]

\* setup requests of two workers, and self-registration
NextSetup ==
    \/ \E t \in Threads, u \in SetupUsers : initial_setup_query(t, u)
    \/ \E t \in Threads : initial_setup_create(t)
    \/ \E u \in SetupUsers : register(u, "developer")
    \/ \E u \in SetupUsers, is_active \in {<<FALSE>>} :
            update_user(u, is_active, NoValue, NoValue)
    \/ respond

SpecSetup == InitSetup /\ [][NextSetup]_vars

\* ------------------------------------- bearer tokens of changed accounts

\* half a second, and the lifetime of an access token
BearerAdvances == {1, AccessTokenExpireMinutes * 60 * TicksPerSecond}

\* accounts are registered, changed and deactivated while the tokens issued
\* at login are presented to an operation open to every role
NextBearer ==
    \/ \E d \in BearerAdvances : Tick(d)
    \/ \E u \in Users, role \in RegisterRoles : register_user(u, role)
    \/ \E u \in Users, p \in UpdateChoices : update_user(u, p[1], p[2], p[3])
    \/ \E u \in Users, ok \in BOOLEAN : login(u, ok)
    \/ \E b \in Bearers : role_checker_request(b, NoValue, Roles)
    \/ respond

SpecBearer == Init /\ [][NextBearer]_vars

\* -------------------------------------------- the owner of an API key

\* two app clients, one of each organization, and the ids of their keys
OwnerClients == {"c1", "c2"}
OwnerKeyIds == {"key1", "key2", "key3"}
OwnerOrg == ("c1" :> "o1") @@ ("c2" :> "o2")

\* the id KeyService.rotate_api_key gives the key it creates
NewKeyId == CHOOSE k \in DOMAIN apikeys : ~apikeys[k].exists

\* KeyService.rotate_api_key(key_id, revoked_by): the rows after the call,
\* the old key revoked and a new key of the same client created
KeyService_rotate_api_key(keys, k, revoked_by) ==
    [KeyService_revoke_api_key(keys, k, revoked_by) EXCEPT ![NewKeyId] =
        [exists |-> TRUE, app_client_id |-> keys[k].app_client_id,
         key_hash |-> hash_api_key(KeySecret(NewKeyId)),
         is_active |-> TRUE, expires_at |-> keys[k].expires_at,
         revoked_by |-> None]]

\* the route POST /clients/{client_id}/keys/{key_id}/rotate
rotate_api_key(credentials, c, k) ==
    \E auth \in {get_current_user(credentials, clock)} :
    \E d \in {KeyRouteChecks(auth, c, k, 400)} :
        /\ resp = NoResp
        /\ \E fresh \in DOMAIN apikeys : ~apikeys[fresh].exists
        /\ apikeys' = IF d.kind = "ok"
                      THEN KeyService_rotate_api_key(apikeys, k, auth.ctx.identity_id)
                      ELSE apikeys
        /\ resp' = [op |-> "rotate_api_key", bearer |-> credentials,
                    client_id |-> c, key_id |-> k,
                    status |-> IF d.kind = "ok" THEN 200
                               ELSE IF d.kind = "http" THEN d.status ELSE 500,
                    detail |-> IF d.kind = "http" THEN d.detail ELSE None]
        /\ UNCHANGED <<users, clients, subs, tokens, resolved, revoked, made,
                       apiversions, endpoints>>
        /\ UNCHANGED limiterVars

\* each organization has an app client with one key; the caller holds one
\* token, of any role and organization
InitOwners ==
    /\ clock = 0
    /\ nadv = 0
    /\ ncalls = 0
    /\ nadmin = 0
    /\ lock = NoThread
    /\ requests = [k \in LimiterKeys |-> <<>>]
    /\ limits = [k \in LimiterKeys |-> Unset]
    /\ th = [t \in Threads |-> Idle]
    /\ results = [k \in Keys |-> <<>>]
    /\ dirty = [k \in Keys |-> FALSE]
    /\ users = [u \in Users |-> NoRow]
    /\ clients = [c \in OwnerClients |->
                    [exists |-> TRUE, org_id |-> OwnerOrg[c], client_id |-> <<"oauth", c>>,
                     client_secret_hash |-> hash_api_key(ClientSecret(c)),
                     is_active |-> TRUE]]
    /\ apikeys = [k \in OwnerKeyIds |->
                    IF k = "key3" THEN NoRow
                    ELSE [exists |-> TRUE,
                          app_client_id |-> IF k = "key1" THEN "c1" ELSE "c2",
                          key_hash |-> hash_api_key(KeySecret(k)),
                          is_active |-> TRUE, expires_at |-> NoValue,
                          revoked_by |-> None]]
    /\ subs = [x \in Subs |-> NoRow]
    /\ tokens \in {{p} : p \in VersionPayloads}
    /\ resp = NoResp
    /\ resolved = {}
    /\ revoked = {}
    /\ made = <<>>
    /\ apiversions = [v \in Versions |-> NoRow]
    /\ endpoints = [e \in Endpoints |-> NoRow]

NextOwners ==
    \/ \E b \in GateBearers, c \in OwnerClients, k \in OwnerKeyIds : revoke_api_key(b, c, k)
    \/ \E b \in GateBearers, c \in OwnerClients, k \in OwnerKeyIds : rotate_api_key(b, c, k)
    \/ respond

SpecOwners == InitOwners /\ [][NextOwners]_vars

\* ------------------------------------------- the life of a subscription

\* calls of the subscription service for one app client and two versions
NextSubs ==
    \/ \E c \in Clients, o \in Orgs : create_app_client(c, o)
    \/ \E c \in Clients : deactivate_app_client(c)
    \/ \E x \in Subs, c \in Clients, v \in Versions, rq \in {{ScopeOrder[1]}, Scopes} :
            create_subscription_call(x, c, v, rq)
    \/ \E x \in Subs, g \in (SUBSET Scopes) \ {{}}, rl \in RateLimitChoices :
            approve_subscription_call(x, g, rl)
    \/ \E x \in Subs : deny_subscription_call(x)
    \/ \E x \in Subs : revoke_subscription_call(x)
    \/ respond

SpecSubs == Init /\ [][NextSubs]_vars

\* -------------------------------------------- the rate-limited endpoints

\* the rate-limit keys whose requests are counted
EndpointKeys ==
    {<<"oauth:token", OAuthId["c1"]>>, <<"auth:login", ClientHost>>,
     <<"auth:register", ClientHost>>}

\* the per-minute limit of a key: set_limit is called for the keys of
\* subscriptions only, so an endpoint key has the default
EndpointLimit(k) ==
    IF k \in DOMAIN limits THEN get_limit(limits, k)[1] ELSE DefaultLimitPerMinute

\* the keys that have received a request since the clock last moved
Busy == {k \in DOMAIN made : made[k] > 0}

\* the run is bounded: a key receives at most one request beyond its limit,
\* and at most MaxBusyKeys keys receive requests between two clock moves
CanReceive(k) ==
    /\ made[k] <= EndpointLimit(k)
    /\ Cardinality(Busy \cup {k}) <= MaxBusyKeys

InitEndpoints ==
    /\ clock = 0
    /\ nadv = 0
    /\ ncalls = 0
    /\ nadmin = 0
    /\ lock = NoThread
    /\ requests = [k \in LimiterKeys |-> <<>>]
    /\ limits = [k \in LimiterKeys |-> Unset]
    /\ th = [t \in Threads |-> Idle]
    /\ results = [k \in Keys |-> <<>>]
    /\ dirty = [k \in Keys |-> FALSE]
    /\ users = [u \in Users |-> NoRow]
    /\ clients = [c \in Clients |-> NoRow]
    /\ apikeys = [k \in KeyIds |-> NoRow]
    /\ subs = [x \in Subs |-> NoRow]
    /\ tokens = {}
    /\ resp = NoResp
    /\ resolved = {}
    /\ revoked = {}
    /\ made = [k \in EndpointKeys |-> 0]
    /\ apiversions = [v \in Versions |-> NoRow]
    /\ endpoints = [e \in Endpoints |-> NoRow]

EndpointAdvances == {MinuteWindow}

NextEndpoints ==
    \/ \E d \in EndpointAdvances : Tick(d)
    \/ \E u \in Users, role \in {"developer", "org_admin"} :
            /\ CanReceive(<<"auth:register", ClientHost>>)
            /\ register(u, role)
    \/ \E u \in Users, ok \in BOOLEAN :
            /\ CanReceive(<<"auth:login", ClientHost>>)
            /\ login(u, ok)
    \/ /\ CanReceive(<<"oauth:token", OAuthId["c1"]>>)
       /\ token_endpoint("client_credentials", OAuthId["c1"], ClientSecret("c1"),
                         [truthy |-> FALSE, parts |-> <<>>], <<>>)
    \/ respond

SpecEndpoints == InitEndpoints /\ [][NextEndpoints]_vars

Next ==
    \/ \E d \in Advances : Tick(d)
    \/ \E t \in Threads : LimiterStep(t)

Spec == Init /\ [][Next]_vars

\* one caller: the calls are sequential
NextSeq ==
    \/ \E d \in Advances : Tick(d)
    \/ LimiterStep("t1")

SpecSeq == Init /\ [][NextSeq]_vars

\* ------------------------------------------------- rate limiter: claims

IsSorted(q) == \A i \in 1..Len(q) : \A j \in i..Len(q) : q[i] <= q[j]

\* the checks on key k that were allowed with a timestamp in (lo, hi]
AllowedIn(k, lo, hi) ==
    {i \in 1..Len(results[k]) :
        results[k][i].allowed /\ results[k][i].now > lo /\ results[k][i].now <= hi}

\* C1: for a key whose limit was set before its first check and that was
\* never reset, the allowed checks whose timestamps lie in any trailing
\* 60-second window number at most the key's per-minute limit, whatever the
\* interleaving of the threads.
C1_WindowNeverExceeded ==
    \A k \in Keys :
        ~dirty[k] =>
            \A i \in 1..Len(results[k]) :
                results[k][i].allowed =>
                    Cardinality(AllowedIn(k, results[k][i].now - MinuteWindow,
                                          results[k][i].now))
                        <= get_limit(limits, k)[1]

\* C2: a thread that has read the clock and the limit pair for a check and
\* has not yet finished the check holds the limiter's lock.
C2_ReadsInsideLock ==
    \A t \in Threads :
        (th[t].pc # "idle" /\ th[t].op = "check") => lock = t

\* C3: every key's timestamp log is in non-decreasing time order.
C3_LogSorted == \A k \in Keys : IsSorted(requests[k])

\* C4: on a fresh key with per-minute limit L >= 1 and per-hour limit >= L,
\* of L+1 sequential checks made within one minute the first L are allowed
\* and check L+1 is denied with limit_type per_minute.
C4_FreshKeyBurst ==
    \A k \in Keys :
        (~dirty[k] /\ limits[k] # Unset) =>
            LET L == limits[k][1]
                h == results[k]
            IN  (L >= 1 /\ limits[k][2] >= L) =>
                    \A i \in 1..Len(h) :
                        (i <= L + 1 /\ h[i].now - h[1].now < MinuteWindow) =>
                            IF i <= L
                            THEN h[i].allowed
                            ELSE ~h[i].allowed /\ h[i].limit_type = "per_minute"

\* the burst of the example: limit 3, four checks within a minute, the
\* fourth one denied
C4_Witness ==
    \E k \in Keys :
        /\ ~dirty[k]
        /\ limits[k] # Unset
        /\ limits[k][1] = 3
        /\ Len(results[k]) = 4
        /\ results[k][4].now - results[k][1].now < MinuteWindow
        /\ ~results[k][4].allowed

\* C5: every denial carries a retry_after of at least 1 second and at most
\* the length of the violated window (60 for per_minute, 3600 for per_hour).
C5_RetryAfterRange ==
    \A k \in Keys :
        \A i \in 1..Len(results[k]) :
            ~results[k][i].allowed =>
                /\ results[k][i].retry_after >= 1
                /\ results[k][i].retry_after <=
                        (IF results[k][i].limit_type = "per_minute"
                         THEN MinuteSeconds ELSE HourSeconds)

\* ------------------------------------------- identity resolution: claims

\* the request served by the last step went through get_auth_context
ResolveDone == resp.op = "resolve"

\* the bearer value is a token of this server that has not expired
Decodes(b) == b.form = "intact" /\ b.payload.exp * TicksPerSecond > clock

AcceptedBearer(b) == Decodes(b) /\ b.payload.type \in {"access", "oauth_client"}

\* a bearer value that is expired, tampered, malformed or of another type
RejectedBearer(b) ==
    \/ b.form \in {"tampered", "malformed"}
    \/ b.form = "intact" /\ ~Decodes(b)
    \/ b.form = "intact" /\ b.payload.type \notin {"access", "oauth_client"}

Presented(api_key) == api_key \notin {NoValue, <<"">>}

KeyOf(api_key) == {k \in KeyIds : apikeys[k].exists /\ KeySecret(k) = api_key}

KeyExpired(k) == apikeys[k].expires_at # NoValue /\ apikeys[k].expires_at[1] < clock

ValidKey(api_key) ==
    \E k \in KeyOf(api_key) :
        /\ apikeys[k].is_active
        /\ ~KeyExpired(k)
        /\ clients[apikeys[k].app_client_id].exists
        /\ clients[apikeys[k].app_client_id].is_active

KeyRejections ==
    {"Invalid API key", "API key is revoked", "API key has expired",
     "App client is inactive"}

\* C6: a request that carries a bearer token decoding to type access or
\* oauth_client together with a valid API key is served with the context of
\* the bearer token (the user, or the OAuth client), never with the API-key
\* context.
C6_BearerOutranksKey ==
    (ResolveDone /\ AcceptedBearer(resp.bearer) /\ ValidKey(resp.api_key)) =>
        /\ resp.status = 200
        /\ resp.ctx.auth_type =
                (IF resp.bearer.payload.type = "access" THEN "jwt" ELSE "oauth_client")
        /\ resp.ctx.identity_id = resp.bearer.payload.sub

C6_Witness ==
    /\ ResolveDone /\ AcceptedBearer(resp.bearer) /\ ValidKey(resp.api_key)
    /\ resp.status = 200 /\ resp.ctx.auth_type = "jwt"

\* C7: a request presenting an API key that is unknown, revoked, expired or
\* owned by an inactive client is answered 401 with the reason of the key,
\* whether or not a bearer token comes with it; it is not served as if no key
\* had been sent.
C7_InvalidKeyIsRejected ==
    (ResolveDone /\ Presented(resp.api_key) /\ ~ValidKey(resp.api_key)) =>
        /\ resp.status = 401
        /\ resp.detail \in KeyRejections

C7_Witness ==
    /\ ResolveDone /\ Presented(resp.api_key) /\ ~ValidKey(resp.api_key)
    /\ AcceptedBearer(resp.bearer)
    /\ resp.status = 401

\* C8: a bearer token that is expired, tampered, malformed or of a type other
\* than access/oauth_client does not fail the request by itself: no exception
\* escapes (no 500), with a valid API key the request gets the API-key
\* context, and with no API key it ends in 401 "Authentication required".
C8_BadBearerFallsThrough ==
    (ResolveDone /\ RejectedBearer(resp.bearer)) =>
        /\ resp.status # 500
        /\ ValidKey(resp.api_key) =>
                resp.status = 200 /\ resp.ctx.auth_type = "api_key"
        /\ ~Presented(resp.api_key) =>
                resp.status = 401 /\ resp.detail = "Authentication required"

C8_Witness ==
    /\ ResolveDone /\ resp.bearer.form = "intact" /\ ~Decodes(resp.bearer)
    /\ ValidKey(resp.api_key)
    /\ resp.status = 200

\* C9, as stated: a refresh token sent as the bearer, and an access or
\* oauth_client token sent to refresh_tokens, are both a hard rejection (401)
\* of the request, never a fallback to another credential.
C9_HardRejection ==
    /\ (ResolveDone /\ Decodes(resp.bearer) /\ resp.bearer.payload.type = "refresh")
            => resp.status = 401
    /\ (resp.op = "refresh" /\ resp.token.payload.type \in {"access", "oauth_client"})
            => resp.status = 401 /\ resp.issued = {}

\* C9, amended: a refresh token sent as the bearer never yields a bearer
\* context: the request is served only with the context of a valid API key
\* sent with it, and is answered 401 otherwise; an access or oauth_client
\* token sent to refresh_tokens is answered 401 and no token is issued.
C9_TypeSeparation ==
    /\ (ResolveDone /\ Decodes(resp.bearer) /\ resp.bearer.payload.type = "refresh")
            => /\ resp.status \in {200, 401}
               /\ resp.status = 200 =>
                    resp.ctx.auth_type = "api_key" /\ ValidKey(resp.api_key)
               /\ ~Presented(resp.api_key) => resp.detail = "Authentication required"
    /\ (resp.op = "refresh" /\ resp.token.payload.type \in {"access", "oauth_client"})
            => resp.status = 401 /\ resp.issued = {}

C9_Witness ==
    /\ ResolveDone /\ Decodes(resp.bearer) /\ resp.bearer.payload.type = "refresh"
    /\ ValidKey(resp.api_key)
    /\ resp.status = 200 /\ resp.ctx.auth_type = "api_key"

\* C10: once a key has been revoked (its row is inactive, or carries the user
\* who revoked it), every request presenting it is answered 401 "API key is
\* revoked", also when the same key produced a context before.
C10_RevokedKeyRejected ==
    (ResolveDone /\ \E k \in KeyOf(resp.api_key) :
                        ~apikeys[k].is_active \/ apikeys[k].revoked_by # None) =>
        /\ resp.status = 401
        /\ resp.detail = "API key is revoked"

C10_Witness ==
    /\ ResolveDone
    /\ \E k \in KeyOf(resp.api_key) :
            k \in resolved /\ apikeys[k].revoked_by # None
    /\ resp.status = 401

\* -------------------------------------------------- API keys: claims

\* the key row is active, its expiry is absent or strictly later than the
\* current time, and the owning client exists and is active
KeyUsable(k) ==
    /\ apikeys[k].is_active
    /\ apikeys[k].expires_at = NoValue \/ apikeys[k].expires_at[1] > clock
    /\ clients[apikeys[k].app_client_id].exists
    /\ clients[apikeys[k].app_client_id].is_active

\* C11: resolving an API key produces an AuthContext only if the key row
\* found by hash is active, its expires_at is absent or strictly later than
\* the current time, and the owning client exists and is active; when one of
\* these fails the request is answered 401.
C11_KeyUsableOrRejected ==
    (ResolveDone /\ resp.bearer = NoBearer /\ resp.fail = "none") =>
        \A k \in KeyOf(resp.api_key) :
            /\ resp.status = 200 => KeyUsable(k)
            /\ ~KeyUsable(k) => resp.status = 401

C13_TokenScopesFrozen ==
    (/\ ResolveDone /\ resp.api_key = NoValue
     /\ Decodes(resp.bearer) /\ resp.bearer.payload.type = "oauth_client") =>
        /\ resp.status = 200
        /\ resp.ctx.identity_type = "app_client"
        /\ resp.ctx.scopes = resp.bearer.payload.scopes

C13_Witness ==
    /\ ResolveDone /\ Decodes(resp.bearer)
    /\ resp.bearer.payload.type = "oauth_client"
    /\ resp.status = 200 /\ resp.ctx.scopes = <<ScopeOrder[2], ScopeOrder[1]>>
    /\ subs["s1"].exists /\ subs["s1"].status = "revoked"
    /\ subs["s2"].exists /\ subs["s2"].status = "approved"
    /\ subs["s2"].granted = {ScopeOrder[1]}

\* ---------------------------------------------------- gates: claims

\* a response that carries an AuthContext
HasContext == resp.op # "none" /\ "ctx" \in DOMAIN resp

\* an access token that lacks sub or role, or whose role is not a UserRole
DegenerateAccess(b) ==
    /\ b.form = "intact" /\ b.payload.type = "access"
    /\ \/ "sub" \notin DOMAIN b.payload \/ b.payload.sub = ""
       \/ "role" \notin DOMAIN b.payload \/ b.payload.role = ""
       \/ b.payload.role \notin {"platform_admin", "org_admin", "developer"}

\* C14: in every AuthContext produced by any resolution path, identity_type
\* user comes with a role of the UserRole enumeration and identity_type
\* app_client with no role; an access token that lacks sub or role, or has
\* an unrecognized role, yields no context (the request is then served only
\* by a valid API key, and answered 401 without one).
C14_ContextRoleShape ==
    /\ HasContext =>
        /\ resp.ctx.identity_type \in {"user", "app_client"}
        /\ resp.ctx.identity_type = "user" =>
                resp.ctx.role \in {"platform_admin", "org_admin", "developer"}
        /\ resp.ctx.identity_type = "app_client" => resp.ctx.role = None
    /\ (ResolveDone /\ DegenerateAccess(resp.bearer)) =>
        /\ resp.status = 200 => resp.ctx.auth_type = "api_key"
        /\ ~Presented(resp.api_key) => resp.status = 401

C14_Witness ==
    /\ ResolveDone /\ DegenerateAccess(resp.bearer)
    /\ "role" \in DOMAIN resp.bearer.payload
    /\ resp.bearer.payload.role = "superuser"
    /\ "sub" \in DOMAIN resp.bearer.payload /\ resp.bearer.payload.sub = "u1"
    /\ ~Presented(resp.api_key) /\ resp.status = 401

\* a bearer token that resolves to an OAuth-client context
OAuthBearer(b) ==
    /\ b.form = "intact" /\ b.payload.type = "oauth_client"
    /\ "sub" \in DOMAIN b.payload /\ b.payload.sub # ""

\* a bearer token that resolves to a user context
UserBearer(b) ==
    b.form = "intact" /\ b.payload.type = "access" /\ ~DegenerateAccess(b)

\* the API key, where the operation reads it, is absent or valid
KeyFine == resp.op = "role_checker" \/ ~Presented(resp.api_key) \/ ValidKey(resp.api_key)

\* the request is authenticated as an app client: by an OAuth-client bearer
\* token, or by a valid API key and no bearer token that resolves
AsAppClient ==
    \/ OAuthBearer(resp.bearer) /\ KeyFine
    \/ ~UserBearer(resp.bearer) /\ ValidKey(resp.api_key)

RoleGated == resp.op \in {"role_checker", "require_role"}

\* a user is admitted exactly when the role is allowed, and refused with 403
UserAdmittedByRole ==
    (RoleGated /\ UserBearer(resp.bearer) /\ KeyFine) =>
        /\ resp.status \in {200, 403}
        /\ resp.status = 200 <=> resp.bearer.payload.role \in resp.allowed

\* C15, as stated: a request authenticated as an app client, by an
\* OAuth-client bearer token or by an API key, that reaches a role-gated
\* operation (RoleChecker or require_role) is answered 403; a user is
\* admitted exactly when the role is one of the allowed roles, 403 otherwise.
C15_AppClientForbidden ==
    /\ (RoleGated /\ AsAppClient) => resp.status = 403
    /\ UserAdmittedByRole

\* C15, amended: an operation behind RoleChecker answers 403 to an
\* OAuth-client bearer token and does not read the API key: a request with
\* no bearer token that resolves is answered 401 there, with or without a
\* valid API key.  An operation behind require_role answers 403 to an
\* app-client context, from an OAuth-client token or from an API key.  A
\* user is admitted exactly when the role is allowed, 403 otherwise.
C15_RoleGate ==
    /\ (resp.op = "role_checker" /\ OAuthBearer(resp.bearer)) => resp.status = 403
    /\ (resp.op = "role_checker" /\ ~OAuthBearer(resp.bearer)
            /\ ~UserBearer(resp.bearer)) => resp.status = 401
    /\ (resp.op = "require_role" /\ AsAppClient) => resp.status = 403
    /\ UserAdmittedByRole

C15_Witness ==
    /\ resp.op = "role_checker" /\ resp.bearer = NoBearer
    /\ ValidKey(resp.api_key) /\ resp.status = 401

\* the scopes of the context the request resolves to
ContextScopes ==
    IF OAuthBearer(resp.bearer)
    THEN IF "scopes" \in DOMAIN resp.bearer.payload
         THEN {resp.bearer.payload.scopes[i] :
                    i \in 1..Len(resp.bearer.payload.scopes)}
         ELSE {}
    ELSE IF UserBearer(resp.bearer) THEN {}
    ELSE {n \in Scopes : \E x \in Subs, k \in KeyOf(resp.api_key) :
            /\ subs[x].exists
            /\ subs[x].app_client_id = apikeys[k].app_client_id
            /\ subs[x].status = "approved"
            /\ n \in subs[x].granted}

\* the request resolves to a context
Authenticated ==
    /\ ~Presented(resp.api_key) \/ ValidKey(resp.api_key)
    /\ OAuthBearer(resp.bearer) \/ UserBearer(resp.bearer) \/ ValidKey(resp.api_key)

\* C16: verify_scopes(required) admits a context exactly when every scope of
\* required is among the scopes of the context, and answers 403 otherwise:
\* a context with {a} against required [a, b] is refused, a context with
\* more scopes than required is admitted.
C16_AllOfScopes ==
    (resp.op = "verify_scopes" /\ Authenticated) =>
        /\ resp.status \in {200, 403}
        /\ resp.status = 200 <=>
                \A i \in 1..Len(resp.required) : resp.required[i] \in ContextScopes

C16_Witness ==
    /\ resp.op = "verify_scopes" /\ Authenticated
    /\ ContextScopes = {ScopeOrder[1]}
    /\ resp.required = ScopeOrder
    /\ resp.status = 403

\* ---------------------------------------------- token endpoint: claims

TokenDone == resp.op = "token"

\* the clients registered under the client_id of the request
TokenClient ==
    {c \in Clients : clients[c].exists /\ clients[c].client_id = resp.client_id}

\* the scopes granted to a client by its approved subscriptions
GrantedNow(c) ==
    {n \in Scopes : \E x \in Subs :
        /\ subs[x].exists
        /\ subs[x].app_client_id = c
        /\ subs[x].status = "approved"
        /\ n \in subs[x].granted}

\* the scopes the request asks for, when it has a scope parameter
Requested == {resp.scope.parts[i] : i \in 1..Len(resp.scope.parts)}

\* the grant type is supported and the client is known, active and
\* presents its secret
ClientAuthenticated ==
    /\ resp.grant_type = "client_credentials"
    /\ \E c \in TokenClient :
            clients[c].is_active /\ resp.client_secret = ClientSecret(c)

\* C17: a token request of an authenticated client with granted scopes
\* that asks for a scope outside the scopes currently granted is answered
\* invalid_scope (400), also when other requested scopes are granted; no
\* request asking for a scope outside the granted ones gets a token.
C17_InvalidScope ==
    (TokenDone /\ resp.scope.truthy) =>
        \A c \in TokenClient :
            Requested \ GrantedNow(c) # {} =>
                /\ resp.status # 200 /\ resp.issued = {}
                /\ (ClientAuthenticated /\ GrantedNow(c) # {}) =>
                        resp.status = 400 /\ resp.detail = "invalid_scope"

C17_Witness ==
    /\ TokenDone /\ ClientAuthenticated
    /\ resp.scope.parts = <<ScopeOrder[2], ScopeOrder[1]>>
    /\ \E c \in TokenClient : GrantedNow(c) = {ScopeOrder[1]}
    /\ resp.status = 400 /\ resp.detail = "invalid_scope" /\ resp.issued = {}

\* the OAuth2 error the request must get, by the order of the checks
ExpectedError ==
    IF resp.grant_type # "client_credentials" THEN "unsupported_grant_type"
    ELSE IF ~ClientAuthenticated THEN "invalid_client"
    ELSE IF \A c \in TokenClient : GrantedNow(c) = {} THEN "access_denied"
    ELSE IF resp.scope.truthy /\ \E c \in TokenClient : Requested \ GrantedNow(c) # {}
    THEN "invalid_scope"
    ELSE None

\* C18: the token endpoint answers each failing request with exactly one
\* OAuth2 error, the first that applies in this order: unsupported_grant_type
\* for a grant type other than client_credentials; invalid_client for an
\* unknown client, an inactive client or a wrong secret; access_denied for
\* an empty granted set; invalid_scope for a requested scope outside the
\* granted set.  No token is issued with any of them.
C18_ErrorOrder ==
    TokenDone =>
        /\ resp.detail = ExpectedError
        /\ resp.status = 200 <=> ExpectedError = None
        /\ ExpectedError # None => resp.issued = {}

C18_Witness ==
    /\ TokenDone /\ resp.grant_type = "password" /\ TokenClient = {}
    /\ resp.detail = "unsupported_grant_type" /\ resp.issued = {}

\* C19: every token the token endpoint issues carries a non-empty scope
\* list within the scopes granted to the client by approved subscriptions at
\* that moment: the requested scopes when the request has a scope parameter,
\* the whole granted set otherwise.
C19_IssuedScopesNonEmpty ==
    (TokenDone /\ resp.status = 200) =>
        /\ resp.issued # {}
        /\ \A p \in resp.issued : \A c \in TokenClient :
            /\ p.scopes # <<>>
            /\ {p.scopes[i] : i \in 1..Len(p.scopes)} \subseteq GrantedNow(c)
            /\ resp.scope.truthy => p.scopes = resp.scope.parts
            /\ ~resp.scope.truthy =>
                    {p.scopes[i] : i \in 1..Len(p.scopes)} = GrantedNow(c)

\* ------------------------------------------------ refresh tokens: claims

\* C20: after revoke_refresh_tokens(user) has returned, refresh_tokens
\* rejects every refresh token issued to that user before the call, and
\* accepts the refresh tokens issued after it (of an active user, before
\* they expire).
C20_RevokedRefreshRejected ==
    (resp.op = "refresh" /\ resp.token.form = "intact"
        /\ resp.token.payload.type = "refresh") =>
        /\ resp.token.payload \in revoked =>
                resp.status = 401 /\ resp.issued = {}
        /\ (/\ resp.token.payload \notin revoked
            /\ Decodes(resp.token)
            /\ users[resp.token.payload.sub].exists
            /\ users[resp.token.payload.sub].is_active) => resp.status = 200

\* C21: refresh_tokens succeeds only if the presented token decodes, is of
\* type refresh, names a user that exists and is active at that moment and
\* carries the token_version the user has now; on success it returns one new
\* access token and one new refresh token of that user with that same
\* token_version; on a failure it issues nothing.
C21_RefreshRequirements ==
    resp.op = "refresh" =>
        /\ resp.status = 200 =>
            /\ Decodes(resp.token)
            /\ resp.token.payload.type = "refresh"
            /\ resp.token.payload.sub \in Users
            /\ users[resp.token.payload.sub].exists
            /\ users[resp.token.payload.sub].is_active
            /\ resp.token.payload.tv = 0
            /\ {p.type : p \in resp.issued} = {"access", "refresh"}
            /\ Cardinality(resp.issued) = 2
            /\ \A p \in resp.issued :
                    p.sub = resp.token.payload.sub /\ p.tv = resp.token.payload.tv
        /\ resp.status # 200 => resp.issued = {}

C21_Witness ==
    /\ resp.op = "refresh" /\ resp.status = 200
    /\ clock > 0
    /\ \E p \in resp.issued : p.type = "refresh" /\ p.iat > resp.token.payload.iat

\* ------------------------------------------------------ tokens: claims

\* C22: a token of any type decoded at a time after its expiry is rejected
\* (decode_token returns no claims), and a token with an intact signature
\* decoded before its expiry is accepted with its claims.
C22_ExpiryDecides ==
    (resp.op = "decode" /\ resp.token.form = "intact") =>
        /\ resp.now > resp.token.payload.exp * TicksPerSecond =>
                resp.result.ret = "None"
        /\ resp.now < resp.token.payload.exp * TicksPerSecond =>
                /\ resp.result.ret = "payload"
                /\ resp.result.payload = resp.token.payload

C22_Witness ==
    /\ resp.op = "decode" /\ resp.token.form = "intact"
    /\ resp.token.payload.type = "refresh"
    /\ resp.now > resp.token.payload.exp * TicksPerSecond
    /\ resp.result.ret = "None"

\* C23: decoding a token right after issuing it returns the claims given,
\* plus the issue time (in whole seconds), the expiry time (issue time plus
\* ttl) and the type of the issuing function, for every token type.
C23_RoundTrip ==
    resp.op = "issue" =>
        /\ resp.result.ret = "payload"
        /\ DOMAIN resp.result.payload = DOMAIN resp.claims \cup {"iat", "exp", "type"}
        /\ \A f \in DOMAIN resp.claims : resp.result.payload[f] = resp.claims[f]
        /\ resp.result.payload.type = resp.type
        /\ resp.result.payload.iat * TicksPerSecond <= resp.now
        /\ resp.now < (resp.result.payload.iat + 1) * TicksPerSecond
        /\ resp.result.payload.exp = resp.result.payload.iat + resp.ttl

C23_Witness ==
    /\ resp.op = "issue" /\ resp.type = "refresh"
    /\ resp.now % TicksPerSecond # 0
    /\ resp.result.ret = "payload"
    /\ resp.result.payload.iat * TicksPerSecond < resp.now

\* ----------------------------------------------------- secrets: claims

\* C24: a generated secret verifies against its own hash, a string that
\* differs from it by one character does not; the hash generate_api_key
\* returns is hash_api_key of the plaintext; verification with an empty
\* secret or an empty stored hash is false.
C24_SecretVerification ==
    /\ resp.op = "generate_client_secret" =>
            resp.verified <=> resp.presented = resp.secret
    /\ resp.op = "generate_api_key" =>
            resp.key_hash = hash_api_key(resp.full_key)
    /\ (resp.op = "verify_client_secret"
            /\ (resp.secret = <<"">> \/ resp.stored_hash = <<"">>)) => ~resp.result

C24_Witness ==
    /\ resp.op = "generate_client_secret"
    /\ resp.presented # resp.secret
    /\ Len(resp.presented) = Len(resp.secret)
    /\ ~resp.verified

\* C25: token introspection answers {active: false}, with status 200, for
\* every token that cannot be decoded or has expired, and never answers with
\* an error status; for a token that decodes and has not expired it answers
\* active: true with the subject, the scopes, exp and iat of the token.
C25_IntrospectionNeverFails ==
    resp.op = "introspect" =>
        /\ resp.status = 200
        /\ ~Decodes(resp.token) =>
                /\ ~resp.active
                /\ DOMAIN resp = {"op", "token", "status", "active"}
        /\ Decodes(resp.token) =>
                /\ resp.active
                /\ resp.client_id = resp.token.payload.sub
                /\ resp.scope = (IF "scopes" \in DOMAIN resp.token.payload
                                 THEN resp.token.payload.scopes ELSE <<>>)
                /\ resp.exp = resp.token.payload.exp
                /\ resp.iat = resp.token.payload.iat

C25_Witness ==
    /\ resp.op = "introspect" /\ resp.token.form = "intact"
    /\ ~Decodes(resp.token) /\ resp.token.payload.type = "oauth_client"
    /\ resp.status = 200 /\ ~resp.active

RateLimitHeaders ==
    {"X-RateLimit-Limit", "X-RateLimit-Remaining", "X-RateLimit-Reset",
     "X-RateLimit-Limit-Hour", "X-RateLimit-Remaining-Hour",
     "X-RateLimit-Reset-Hour"}

C27_HeadersOnEveryOutcome ==
    resp.op = "rate_limit_check" =>
        /\ RateLimitHeaders \subseteq DOMAIN resp.outcome.headers
        /\ ~resp.info.allowed =>
                /\ resp.outcome.kind = "http"
                /\ resp.outcome.status = 429
                /\ "Retry-After" \in DOMAIN resp.outcome.headers

\* the rate-limit key of the request just served
RespKey ==
    IF resp.op = "token" THEN <<"oauth:token", resp.client_id>>
    ELSE IF resp.op = "login" THEN <<"auth:login", ClientHost>>
    ELSE <<"auth:register", ClientHost>>

\* C28: a request to the token, login or register endpoint that arrives
\* when its key has already had its per-minute limit of requests within the
\* minute is answered 429 with Retry-After.
C28_EndpointsRateLimited ==
    /\ resp.op \in {"token", "login", "register"}
    /\ RespKey \in DOMAIN made
    /\ made[RespKey] > EndpointLimit(RespKey)
    => /\ resp.status = 429
       /\ "headers" \in DOMAIN resp
       /\ "Retry-After" \in DOMAIN resp.headers

\* C29: the scopes of every AuthContext hold no entry twice, whichever
\* credential produced the context, also when the token was issued from a
\* scope parameter that names a scope twice.
NoDuplicates(q) == \A i \in 1..Len(q) : \A j \in 1..Len(q) : q[i] = q[j] => i = j

C29_ScopesWithoutDuplicates ==
    ResolveDone /\ HasContext => NoDuplicates(resp.ctx.scopes)

\* the user of the request just served is an org_admin of the organization
\* that owns version v, or a platform_admin
AdminOf(v) ==
    /\ resp.bearer.form = "intact"
    /\ resp.bearer.payload.type = "access"
    /\ \/ resp.bearer.payload.role = "platform_admin"
       \/ /\ resp.bearer.payload.role = "org_admin"
          /\ resp.bearer.payload.org_id = apiversions[v].org_id

\* C30: the status of an API version changes only in a step that serves a
\* request of an org_admin of the owning organization or of a
\* platform_admin; no request of a developer changes it.
C30_StatusChangedByAdminsOnly ==
    [][\A v \in Versions :
          apiversions[v].exists /\ apiversions'[v].status # apiversions[v].status
          => /\ resp'.op \in {"update_api_version", "publish_api_version",
                              "deprecate_api_version"}
             /\ resp'.version = v
             /\ AdminOf(v)']_vars

\* C31: a create_endpoint or update_endpoint request for a version that is
\* published or deprecated is refused and leaves the endpoints as they were.
C31_EndpointsDraftOnly ==
    [][/\ resp'.op \in {"create_endpoint", "update_endpoint"}
       /\ resp'.version \in Versions
       /\ apiversions[resp'.version].exists
       /\ apiversions[resp'.version].status # "draft"
       => /\ resp'.status # 200
          /\ endpoints' = endpoints]_vars

\* the users created through the setup endpoint: registration creates
\* developers only
CreatedBySetup == {u \in DOMAIN users : users[u].exists /\ users[u].role = "platform_admin"}

\* C32: at most one user is ever created through the setup endpoint, and a
\* setup request that found a user in the system is refused with 400.
C32_SetupOnce ==
    /\ Cardinality(CreatedBySetup) <= 1
    /\ resp.op = "initial_setup" /\ resp.existing_user => resp.status = 400

\* the check on key k completed in this step, if one did
CompletedCheck(k) ==
    IF Len(results'[k]) = Len(results[k]) + 1
    THEN {results'[k][Len(results'[k])]} ELSE {}

\* C33: a check_rate_limit call that is denied leaves the limits of every
\* key and the logs of the other keys unchanged, and changes the log of its
\* key only by dropping leading timestamps that lie one hour or more before
\* the call: every timestamp inside the hour stays, none is added.
C33_DeniedCheckFrame ==
    [][\A k \in Keys : \A r \in CompletedCheck(k) :
          ~r.allowed =>
            /\ limits' = limits
            /\ \A k2 \in DOMAIN requests : k2 # k => requests'[k2] = requests[k2]
            /\ \E n \in 0..Len(requests[k]) :
                    /\ requests'[k] = SubSeq(requests[k], n + 1, Len(requests[k]))
                    /\ \A i \in 1..n : requests[k][i] <= r.now - HourWindow]_vars

\* a denied check that found a timestamp older than an hour in a log that
\* also holds a newer one
C33_Witness ==
    \E k \in Keys : \E i \in 1..Len(results[k]) :
        /\ ~results[k][i].allowed
        /\ i > 1 /\ results[k][1].allowed
        /\ results[k][1].now <= results[k][i].now - HourWindow

\* the transitions a subscription may make
SubscriptionMoves ==
    {<<"pending", "approved">>, <<"pending", "denied">>, <<"approved", "revoked">>}

\* the call served in this step was refused and left the subscriptions alone
Refused == resp'.result # "returned" /\ subs' = subs

\* C34: the status of a subscription changes only from pending to approved,
\* from pending to denied or from approved to revoked; approve and deny on
\* a subscription that is not pending and revoke on one that is not
\* approved fail and change nothing, so denied and revoked are final.
C34_SubscriptionLifecycle ==
    [][/\ \A x \in Subs :
            subs[x].exists =>
                /\ subs'[x].exists
                /\ subs'[x].status # subs[x].status =>
                        <<subs[x].status, subs'[x].status>> \in SubscriptionMoves
       /\ resp'.op \in {"approve_subscription", "deny_subscription"}
          /\ resp'.before.exists /\ resp'.before.status # "pending" => Refused
       /\ resp'.op = "revoke_subscription"
          /\ resp'.before.exists /\ resp'.before.status # "approved" => Refused]_vars

\* a revoke was refused on a denied subscription while another subscription
\* has gone from approved to revoked
C34_Witness ==
    /\ resp.op = "revoke_subscription"
    /\ resp.before.exists /\ resp.before.status = "denied"
    /\ resp.result = "ValueError"
    /\ \E y \in Subs : subs[y].exists /\ subs[y].status = "revoked"

\* an approval that names a scope outside the requested set was refused and
\* granted nothing
UnrequestedRefused ==
    /\ resp # NoResp
    /\ resp.op = "approve_subscription"
    /\ resp.before.exists
    /\ resp.granted \ resp.before.requested # {}
    => /\ resp.result # "returned"
       /\ subs[resp.sub] = resp.before

C36_ResubscribeAfterEnd ==
    /\ resp.op = "create_subscription_request"
    /\ clients[resp.app_client_id].exists
    /\ clients[resp.app_client_id].is_active
    => /\ resp.detail = "Active subscription already exists"
            <=> resp.pair \cap {"pending", "approved"} # {}
       /\ resp.pair # {} /\ resp.pair \subseteq {"denied", "revoked"}
            => /\ resp.result = "returned"
               /\ subs[resp.sub].exists
               /\ subs[resp.sub].status = "pending"

\* the transitions an API version may make
VersionMoves == {<<"draft", "published">>, <<"published", "deprecated">>}

\* C37: the status of an API version changes only from draft to published
\* and from published to deprecated, whatever update, publish and
\* deprecate requests are served.
C37_VersionLifecycle ==
    [][\A v \in Versions :
          apiversions[v].exists /\ apiversions'[v].status # apiversions[v].status
          => <<apiversions[v].status, apiversions'[v].status>> \in VersionMoves]_vars

\* C38: a revoke or rotate request of a user who is not a platform admin
\* leaves every API key of an app client of another organization as it was,
\* whatever client_id and key_id the path names.
C38_KeysOfOtherOrgsUntouched ==
    [][/\ resp'.op \in {"revoke_api_key", "rotate_api_key"}
       /\ resp'.bearer.form = "intact"
       /\ resp'.bearer.payload.type = "access"
       /\ resp'.bearer.payload.role # "platform_admin"
       => \A k \in DOMAIN apikeys :
            /\ apikeys[k].exists
            /\ clients[apikeys[k].app_client_id].org_id # resp'.bearer.payload.org_id
            => apikeys'[k] = apikeys[k]]_vars

\* C39: a request that carries an access token this server issued and that
\* has not expired is resolved to the user context written in the token,
\* whatever the user, client, key and subscription records say now.
C39_BearerResolvedFromTokenAlone ==
    /\ resp.op = "role_checker"
    /\ resp.bearer.form = "intact"
    /\ resp.bearer.payload.type = "access"
    /\ clock < resp.bearer.payload.exp * TicksPerSecond
    => /\ resp.status = 200
       /\ resp.ctx.identity_id = resp.bearer.payload.sub
       /\ resp.ctx.email = resp.bearer.payload.email
       /\ resp.ctx.role = resp.bearer.payload.role
       /\ resp.ctx.org_id = resp.bearer.payload.org_id

\* the token of an account that has since been deactivated and given
\* another role is resolved to the role written in the token
C39_Witness ==
    /\ resp.op = "role_checker"
    /\ resp.status = 200
    /\ users[resp.ctx.identity_id].exists
    /\ ~users[resp.ctx.identity_id].is_active
    /\ users[resp.ctx.identity_id].role # resp.ctx.role

====
